---------------------------- MODULE Spec2Model ----------------------------
(***************************************************************************)
(* Model of the Gmail HTTP server: the Express route table and the         *)
(* authentication middleware of src/index.ts, the generic tool dispatch of *)
(* POST /api/call, and the GmailService adapter operations of gmail.ts     *)
(* they invoke, against a Gmail backend that can fail.                     *)
(***************************************************************************)
EXTENDS Integers, Sequences, FiniteSets, TLC

VARIABLES
    apiKey,      \* config.API_KEY
    listing,     \* backend: query -> message ids users.messages.list returns
    unavailable, \* backend: ids whose by-id calls fail (not found, transient)
    down,        \* backend: failing list queries, and "rpc" for the other calls
    pc,          \* position of the request in the Express chain
    req,         \* the request being served
    route,       \* index in Routes of the matched route, 0 when none matches
    invoked,     \* adapter operation the handler invoked, "none" when none
    calls,       \* backend calls made on behalf of the request
    resp,        \* the response sent
    mkMax,       \* findMarketingEmails: the maxResults argument
    mkOut,       \* findMarketingEmails: [out, calls] once it has run
    fnArg,       \* a message-building or message-reading function: its input
    fnOut,       \* what that function returned, once it has run
    oauthConfig, \* the EnvConfig createOAuth2Client was given
    credentials, \* oauth2Client.credentials
    tokenEvents, \* the 'tokens' events the client has emitted, oldest first
    inflight     \* concurrent requests: idle, calling the backend, or done

vars == <<apiKey, listing, unavailable, down, pc, req, route, invoked, calls,
          resp, mkMax, mkOut, fnArg, fnOut, oauthConfig, credentials,
          tokenEvents, inflight>>

backendVars == <<listing, unavailable, down>>
httpVars == <<apiKey, pc, req, route, invoked, calls, resp>>
mkVars == <<mkMax, mkOut>>
fnVars == <<fnArg, fnOut>>
authVars == <<oauthConfig, credentials, tokenEvents, inflight>>

-----------------------------------------------------------------------------
(* Bounds *)

MaxList == 2        \* longest id list the backend returns for a query
MaxN == 2           \* largest maxResults a request carries
MaxText == 2        \* longest text of the maxResults query parameter
MaxRcpt == 2        \* most mailboxes in a To or Cc header
MaxSubject == 4     \* longest original subject
MaxBodyLines == 2   \* most lines of a plain or HTML body
MaxDepth == 2       \* deepest nesting of multipart containers in a payload
MaxParts == 2       \* most parts of one multipart container
MaxRequests == 2    \* requests under way at once
MaxRefresh == 3     \* most 'tokens' events raised while they run
MaxHeaders == 2     \* most threading headers of an original message
MaxLinks == 2       \* most entries of a List-Unsubscribe header, URLs of a body

(* Program constants *)

DefaultMaxResults == 10

-----------------------------------------------------------------------------
(* Values *)

Undefined == "undefined"      \* an absent header, field or argument
NaN == -1                     \* parseInt of a text that starts with no digit

Ids == {"m1", "m2"}           \* backend identifiers (messages, threads, ...)

Null == [kind |-> "null"]
Throw == [kind |-> "throw"]
NotRun == [kind |-> "none"]
Emails(s) == [kind |-> "emails", ids |-> s]
Email(id) == [kind |-> "email", id |-> id]
Done(op) == [kind |-> "result", of |-> op]
ErrorV(msg) == [kind |-> "error", msg |-> msg]

Min(a, b) == IF a < b THEN a ELSE b

\* Array.prototype.slice(0, n) for n >= 0
Slice(s, n) == SubSeq(s, 1, Min(n, Len(s)))

\* Math.ceil(n / 2)
CeilHalf(n) == (n + 1) \div 2

\* x || 10 on a number: 0 and NaN are falsy
OrDefault(n) == IF n = 0 \/ n = NaN THEN DefaultMaxResults ELSE n

Digits == <<"0", "1", "2", "3", "4", "5", "6", "7", "8", "9">>

IsDigit(c) == \E d \in 1..Len(Digits) : Digits[d] = c

DigitValue(c) == (CHOOSE d \in 1..Len(Digits) : Digits[d] = c) - 1

\* String(n) of a non-negative integer
RECURSIVE Decimal(_)
Decimal(n) ==
    IF n < 10 THEN <<Digits[n + 1]>>
    ELSE Decimal(n \div 10) \o <<Digits[(n % 10) + 1]>>

\* The value of the leading digits of text, acc being the value so far
RECURSIVE ParseDigits(_, _)
ParseDigits(text, acc) ==
    IF text = <<>> \/ ~IsDigit(Head(text)) THEN acc
    ELSE ParseDigits(Tail(text), 10 * acc + DigitValue(Head(text)))

\* parseInt(req.query.maxResults): the leading decimal digits of the text,
\* NaN when the parameter is absent or starts with no digit
ParseInt(text) ==
    IF text = <<>> \/ ~IsDigit(Head(text)) THEN NaN ELSE ParseDigits(text, 0)

Range(s) == {s[i] : i \in 1..Len(s)}

-----------------------------------------------------------------------------
(* Route table of src/index.ts, in registration order *)

ParamSegs == {":id", ":attachmentId"}

R(m, p, a, h) == [method |-> m, path |-> p, auth |-> a, handler |-> h]

Routes == <<
    R("GET",    <<"health">>, FALSE, "health"),
    R("GET",    <<"api", "tools">>, TRUE, "tools"),
    R("GET",    <<"api", "emails">>, TRUE, "listEmails"),
    R("GET",    <<"api", "emails", ":id">>, TRUE, "getEmail"),
    R("POST",   <<"api", "emails", "search">>, TRUE, "searchEmails"),
    R("POST",   <<"api", "emails", "send">>, TRUE, "sendEmail"),
    R("GET",    <<"api", "labels">>, TRUE, "getLabels"),
    R("POST",   <<"api", "labels">>, TRUE, "createLabel"),
    R("DELETE", <<"api", "labels", ":id">>, TRUE, "deleteLabel"),
    R("PUT",    <<"api", "emails", ":id", "labels">>, TRUE, "modifyEmail"),
    R("POST",   <<"api", "emails", ":id", "read">>, TRUE, "markAsRead"),
    R("POST",   <<"api", "emails", ":id", "unread">>, TRUE, "markAsUnread"),
    R("DELETE", <<"api", "emails", ":id">>, TRUE, "trashEmail"),
    R("POST",   <<"api", "emails", ":id", "star">>, TRUE, "starEmail"),
    R("DELETE", <<"api", "emails", ":id", "star">>, TRUE, "unstarEmail"),
    R("POST",   <<"api", "emails", ":id", "archive">>, TRUE, "archiveEmail"),
    R("POST",   <<"api", "emails", "batch", "labels">>, TRUE, "batchModifyEmails"),
    R("GET",    <<"api", "emails", ":id", "unsubscribe">>, TRUE, "getEmailWithUnsubscribe"),
    R("GET",    <<"api", "emails", "marketing">>, TRUE, "findMarketingEmails"),
    R("GET",    <<"api", "emails", "unread", "count">>, TRUE, "getUnreadCount"),
    R("POST",   <<"api", "emails", ":id", "reply">>, TRUE, "replyToEmail"),
    R("POST",   <<"api", "emails", ":id", "forward">>, TRUE, "forwardEmail"),
    R("POST",   <<"api", "emails", ":id", "untrash">>, TRUE, "untrashEmail"),
    R("DELETE", <<"api", "emails", ":id", "permanent">>, TRUE, "deleteEmail"),
    R("GET",    <<"api", "emails", ":id", "attachments">>, TRUE, "getEmailWithAttachments"),
    R("GET",    <<"api", "emails", ":id", "attachments", ":attachmentId">>, TRUE, "getAttachment"),
    R("GET",    <<"api", "threads", ":id">>, TRUE, "getThread"),
    R("GET",    <<"api", "drafts">>, TRUE, "listDrafts"),
    R("GET",    <<"api", "drafts", ":id">>, TRUE, "getDraft"),
    R("POST",   <<"api", "drafts">>, TRUE, "createDraft"),
    R("PUT",    <<"api", "drafts", ":id">>, TRUE, "updateDraft"),
    R("DELETE", <<"api", "drafts", ":id">>, TRUE, "deleteDraft"),
    R("POST",   <<"api", "drafts", ":id", "send">>, TRUE, "sendDraft"),
    R("GET",    <<"api", "settings", "vacation">>, TRUE, "getVacationSettings"),
    R("PUT",    <<"api", "settings", "vacation">>, TRUE, "setVacationSettings"),
    R("PUT",    <<"api", "labels", ":id">>, TRUE, "updateLabel"),
    R("POST",   <<"api", "call">>, TRUE, "call") >>

\* Express matches a route parameter against any single path segment.
SegMatches(pat, seg) == pat \in ParamSegs \/ pat = seg

RouteMatches(r, method, path) ==
    /\ r.method = method
    /\ Len(r.path) = Len(path)
    /\ \A i \in 1..Len(path) : SegMatches(r.path[i], path[i])

\* A later registration: the handler Express would pick if it scanned the
\* table from the end.
MatchRouteLast(method, path) ==
    LET hits == {i \in 1..Len(Routes) : RouteMatches(Routes[i], method, path)}
    IN  IF hits = {} THEN 0 ELSE CHOOSE i \in hits : \A j \in hits : j <= i

\* Express runs the first registered route that matches; 0 when none does.
MatchRoute(method, path) ==
    LET hits == {i \in 1..Len(Routes) : RouteMatches(Routes[i], method, path)}
    IN  IF hits = {} THEN 0 ELSE CHOOSE i \in hits : \A j \in hits : i <= j

\* Value of the n-th route parameter of the matched route, in path order.
ParamValue(i, path, n) ==
    LET at == {k \in 1..Len(path) : Routes[i].path[k] \in ParamSegs}
        pick == {k \in at : Cardinality({j \in at : j <= k}) = n}
    IN  IF pick = {} THEN Undefined ELSE path[CHOOSE k \in pick : TRUE]

-----------------------------------------------------------------------------
(* GET /api/tools: the advertised tools *)

T(n, m, p) == [name |-> n, method |-> m, path |-> p]

Tools == <<
    T("list_emails", "GET", <<"api", "emails">>),
    T("get_email", "GET", <<"api", "emails", ":id">>),
    T("search_emails", "POST", <<"api", "emails", "search">>),
    T("send_email", "POST", <<"api", "emails", "send">>),
    T("reply_email", "POST", <<"api", "emails", ":id", "reply">>),
    T("forward_email", "POST", <<"api", "emails", ":id", "forward">>),
    T("modify_email", "PUT", <<"api", "emails", ":id", "labels">>),
    T("mark_read", "POST", <<"api", "emails", ":id", "read">>),
    T("mark_unread", "POST", <<"api", "emails", ":id", "unread">>),
    T("star_email", "POST", <<"api", "emails", ":id", "star">>),
    T("unstar_email", "DELETE", <<"api", "emails", ":id", "star">>),
    T("archive_email", "POST", <<"api", "emails", ":id", "archive">>),
    T("trash_email", "DELETE", <<"api", "emails", ":id">>),
    T("untrash_email", "POST", <<"api", "emails", ":id", "untrash">>),
    T("delete_email", "DELETE", <<"api", "emails", ":id", "permanent">>),
    T("batch_modify", "POST", <<"api", "emails", "batch", "labels">>),
    T("get_unsubscribe_info", "GET", <<"api", "emails", ":id", "unsubscribe">>),
    T("find_marketing_emails", "GET", <<"api", "emails", "marketing">>),
    T("get_unread_count", "GET", <<"api", "emails", "unread", "count">>),
    T("get_thread", "GET", <<"api", "threads", ":id">>),
    T("get_email_attachments", "GET", <<"api", "emails", ":id", "attachments">>),
    T("download_attachment", "GET", <<"api", "emails", ":id", "attachments", ":attachmentId">>),
    T("get_labels", "GET", <<"api", "labels">>),
    T("create_label", "POST", <<"api", "labels">>),
    T("update_label", "PUT", <<"api", "labels", ":id">>),
    T("delete_label", "DELETE", <<"api", "labels", ":id">>),
    T("list_drafts", "GET", <<"api", "drafts">>),
    T("get_draft", "GET", <<"api", "drafts", ":id">>),
    T("create_draft", "POST", <<"api", "drafts">>),
    T("update_draft", "PUT", <<"api", "drafts", ":id">>),
    T("delete_draft", "DELETE", <<"api", "drafts", ":id">>),
    T("send_draft", "POST", <<"api", "drafts", ":id", "send">>),
    T("get_vacation_settings", "GET", <<"api", "settings", "vacation">>),
    T("set_vacation_settings", "PUT", <<"api", "settings", "vacation">>) >>

\* README, "Generic Tool Call (for Bots)": the tool names it documents
ReadmeTools == {
    "list_emails", "get_email", "search_emails", "send_email",
    "reply_to_email", "forward_email", "modify_email", "mark_read",
    "mark_unread", "trash_email", "untrash_email", "delete_email",
    "star_email", "unstar_email", "archive_email", "batch_modify_emails",
    "get_unread_count", "get_thread", "get_email_attachments",
    "download_attachment", "get_labels", "create_label", "update_label",
    "delete_label", "list_drafts", "get_draft", "create_draft",
    "update_draft", "delete_draft", "send_draft", "get_vacation_settings",
    "set_vacation_settings", "find_marketing_emails", "get_unsubscribe_info" }

\* The names of the README in place of the advertised ones
AdvertisedNamesReadme == ReadmeTools

AdvertisedNames == {Tools[i].name : i \in 1..Len(Tools)}

-----------------------------------------------------------------------------
(* The Gmail backend, at the boundary of the googleapis client *)

NoQuery == Undefined
UserQuery == "q"
UnreadQuery == "is:unread"
DraftsList == "drafts"

\* findMarketingEmails: const queries
MarketingQueries == <<
    "category:promotions",
    "subject:(unsubscribe OR newsletter OR promotional)",
    "from:(noreply OR newsletter OR marketing OR promo)" >>

Queries == {NoQuery, UserQuery, UnreadQuery, DraftsList} \cup Range(MarketingQueries)

FailPoints == Queries \cup {"rpc"}

\* Id lists the backend can return for one query
RECURSIVE SeqsUpTo(_, _)
SeqsUpTo(S, n) ==
    IF n = 0 THEN {<<>>}
    ELSE LET shorter == SeqsUpTo(S, n - 1)
         IN  shorter \cup {Append(s, x) : s \in shorter, x \in S}

Call(api, arg, ok) == [api |-> api, arg |-> arg, ok |-> ok]

\* A list call, with the maxResults it carries
ListCall(api, q, n, ok) == [api |-> api, arg |-> q, n |-> n, ok |-> ok]

\* A by-id backend call succeeds when the backend can serve that id.
ByIdOk(id) == id \in Ids /\ id \notin unavailable

\* users.messages.list / users.drafts.list: at most maxResults ids
BackendList(q, n) == Slice(listing[q], n)

-----------------------------------------------------------------------------
(* GmailService adapter operations: each yields [out, calls] *)

Result(out, cs) == [out |-> out, calls |-> cs]

\* getEmail without its try/catch: the backend failure escapes.
GetEmailThrows(messageId) ==
    LET c == Call("messages.get", messageId, ByIdOk(messageId))
    IN  Result(IF c.ok THEN Email(messageId) ELSE Throw, <<c>>)

GetEmail(messageId) ==
    LET c == Call("messages.get", messageId, ByIdOk(messageId))
    IN  Result(IF c.ok THEN Email(messageId) ELSE Null, <<c>>)

\* The for loop of listEmails putting each email in front of the others
RECURSIVE ListLoopPrepending(_, _, _)
ListLoopPrepending(ids, emails, cs) ==
    IF ids = <<>> THEN Result(Emails(emails), cs)
    ELSE LET g == GetEmail(Head(ids))
         IN  IF g.out.kind = "throw" THEN Result(Throw, cs \o g.calls)
             ELSE ListLoopPrepending(Tail(ids),
                                     IF g.out.kind = "email"
                                     THEN <<g.out.id>> \o emails ELSE emails,
                                     cs \o g.calls)

\* The for loop of listEmails over the listed ids
RECURSIVE ListLoop(_, _, _)
ListLoop(ids, emails, cs) ==
    IF ids = <<>> THEN Result(Emails(emails), cs)
    ELSE LET g == GetEmail(Head(ids))
         IN  IF g.out.kind = "throw" THEN Result(Throw, cs \o g.calls)
             ELSE ListLoop(Tail(ids),
                           IF g.out.kind = "email"
                           THEN Append(emails, g.out.id) ELSE emails,
                           cs \o g.calls)

\* listEmails giving up on the first listed id it cannot fetch
ListEmailsAbort(query, maxResults) ==
    LET c == ListCall("messages.list", query, maxResults, query \notin down)
        ids == BackendList(query, maxResults)
        bad == {i \in 1..Len(ids) : ~ByIdOk(ids[i])}
        first == CHOOSE i \in bad : \A j \in bad : i <= j
    IN  IF ~c.ok THEN Result(Throw, <<c>>)
        ELSE IF bad # {}
        THEN Result(Throw, <<c>> \o [i \in 1..first |-> GetEmail(ids[i]).calls[1]])
        ELSE ListLoop(ids, <<>>, <<c>>)

ListEmails(query, maxResults) ==
    LET c == ListCall("messages.list", query, maxResults, query \notin down)
    IN  IF ~c.ok THEN Result(Throw, <<c>>)
        ELSE ListLoop(BackendList(query, maxResults), <<>>, <<c>>)

SearchEmails(query, maxResults) == ListEmails(query, OrDefault(maxResults))

\* The inner loop without the seenIds test
AppendAll(all, emails) == all \o emails

\* if (!seenIds.has(email.id)) { seenIds.add(email.id); allEmails.push(email) }
RECURSIVE AppendUnseen(_, _)
AppendUnseen(all, emails) ==
    IF emails = <<>> THEN all
    ELSE AppendUnseen(IF Head(emails) \in Range(all) THEN all
                      ELSE Append(all, Head(emails)),
                      Tail(emails))

\* The loop of findMarketingEmails over its three queries
\* The loop over the queries ended by the first query whose listing fails
RECURSIVE MarketingLoopStopping(_, _, _, _)
MarketingLoopStopping(i, maxResults, all, cs) ==
    IF i > Len(MarketingQueries) THEN Result(Emails(all), cs)
    ELSE LET l == ListEmails(MarketingQueries[i], CeilHalf(maxResults))
         IN  IF l.out.kind = "throw" THEN Result(Emails(all), cs \o l.calls)
             ELSE MarketingLoopStopping(i + 1, maxResults,
                                        AppendUnseen(all, l.out.ids),
                                        cs \o l.calls)

RECURSIVE MarketingLoop(_, _, _, _)
MarketingLoop(i, maxResults, all, cs) ==
    IF i > Len(MarketingQueries) THEN Result(Emails(all), cs)
    ELSE LET l == ListEmails(MarketingQueries[i], CeilHalf(maxResults))
         IN  MarketingLoop(i + 1, maxResults,
                           IF l.out.kind = "throw" THEN all
                           ELSE AppendUnseen(all, l.out.ids),
                           cs \o l.calls)

\* findMarketingEmails without the final slice(0, maxResults)
FindMarketingEmailsUncut(maxResults) ==
    MarketingLoop(1, maxResults, <<>>, <<>>)

FindMarketingEmails(maxResults) ==
    LET r == MarketingLoop(1, maxResults, <<>>, <<>>)
    IN  Result(Emails(Slice(r.out.ids, maxResults)), r.calls)

GetEmailWithUnsubscribe(messageId) ==
    LET c == Call("messages.get", messageId, ByIdOk(messageId))
    IN  Result([kind |-> "unsubscribe", found |-> c.ok, id |-> messageId], <<c>>)

GetUnreadCount ==
    LET c == ListCall("messages.list", UnreadQuery, 1, UnreadQuery \notin down)
    IN  Result(IF c.ok THEN [kind |-> "count", n |-> Len(listing[UnreadQuery])]
               ELSE Throw, <<c>>)

\* An operation that is one backend call without an id; failure escapes.
RpcOp(op, api) ==
    LET c == Call(api, "-", "rpc" \notin down)
    IN  Result(IF c.ok THEN Done(op) ELSE Throw, <<c>>)

\* An operation that is one by-id backend call; failure escapes.
ByIdOp(op, api, id) ==
    LET c == Call(api, id, ByIdOk(id))
    IN  Result(IF c.ok THEN Done(op) ELSE Throw, <<c>>)

\* An operation that is one by-id backend call in a try/catch returning null
NullableOp(op, api, id) ==
    LET c == Call(api, id, ByIdOk(id))
    IN  Result(IF c.ok THEN Done(op) ELSE Null, <<c>>)

\* modifyEmail(messageId, addLabelIds, removeLabelIds): one
\* users.messages.modify call carrying both lists, an absent list as none
ModifyEmail(op, messageId, addLabelIds, removeLabelIds) ==
    LET c == [api |-> "messages.modify", arg |-> messageId,
              ok |-> ByIdOk(messageId),
              addLabelIds |-> addLabelIds, removeLabelIds |-> removeLabelIds]
    IN  Result(IF c.ok THEN Done(op) ELSE Throw, <<c>>)

MarkAsRead(messageId) ==
    ModifyEmail("markAsRead", messageId, <<>>, <<"UNREAD">>)

MarkAsUnread(messageId) ==
    ModifyEmail("markAsUnread", messageId, <<"UNREAD">>, <<>>)

StarEmail(messageId) ==
    ModifyEmail("starEmail", messageId, <<"STARRED">>, <<>>)

UnstarEmail(messageId) ==
    ModifyEmail("unstarEmail", messageId, <<>>, <<"STARRED">>)

\* archiveEmail with the two label lists in each other's place
ArchiveEmailSwapped(messageId) ==
    ModifyEmail("archiveEmail", messageId, <<"INBOX">>, <<>>)

ArchiveEmail(messageId) ==
    ModifyEmail("archiveEmail", messageId, <<>>, <<"INBOX">>)

\* The fetch of the source message wrapped in a try/catch returning null
FetchThenSendCaught(op, messageId) ==
    LET g == Call("messages.get", messageId, ByIdOk(messageId))
        s == Call("messages.send", "-", "rpc" \notin down)
    IN  IF ~g.ok THEN Result(Null, <<g>>)
        ELSE Result(IF s.ok THEN Done(op) ELSE Throw, <<g, s>>)

\* The send issued whatever the fetch of the source message gave
FetchThenSendRegardless(op, messageId) ==
    LET g == Call("messages.get", messageId, ByIdOk(messageId))
        s == Call("messages.send", "-", "rpc" \notin down)
    IN  Result(IF s.ok THEN Done(op) ELSE Throw, <<g, s>>)

\* replyToEmail, forwardEmail: fetch the source message, then send
FetchThenSend(op, messageId) ==
    LET g == Call("messages.get", messageId, ByIdOk(messageId))
        s == Call("messages.send", "-", "rpc" \notin down)
    IN  IF ~g.ok THEN Result(Throw, <<g>>)
        ELSE Result(IF s.ok THEN Done(op) ELSE Throw, <<g, s>>)

\* The for loop of listDrafts over the listed draft ids
RECURSIVE DraftLoop(_, _, _)
DraftLoop(ids, drafts, cs) ==
    IF ids = <<>> THEN Result([kind |-> "drafts", ids |-> drafts], cs)
    ELSE LET g == NullableOp("getDraft", "drafts.get", Head(ids))
         IN  DraftLoop(Tail(ids),
                       IF g.out.kind = "null" THEN drafts
                       ELSE Append(drafts, Head(ids)),
                       cs \o g.calls)

ListDrafts(maxResults) ==
    LET c == ListCall("drafts.list", DraftsList, maxResults, DraftsList \notin down)
    IN  IF ~c.ok THEN Result(Throw, <<c>>)
        ELSE DraftLoop(BackendList(DraftsList, maxResults), <<>>, <<c>>)

\* The adapter operation op on the arguments a handler passes it
Adapter(op, id, id2, n) ==
    CASE op = "listEmails" -> ListEmails(NoQuery, n)
      [] op = "getEmail" -> GetEmail(id)
      [] op = "searchEmails" -> SearchEmails(UserQuery, n)
      [] op = "sendEmail" -> RpcOp(op, "messages.send")
      [] op = "getLabels" -> RpcOp(op, "labels.list")
      [] op = "createLabel" -> RpcOp(op, "labels.create")
      [] op = "deleteLabel" -> ByIdOp(op, "labels.delete", id)
      [] op = "updateLabel" -> ByIdOp(op, "labels.update", id)
      [] op = "modifyEmail" -> ByIdOp(op, "messages.modify", id)
      [] op = "markAsRead" -> MarkAsRead(id)
      [] op = "markAsUnread" -> MarkAsUnread(id)
      [] op = "starEmail" -> StarEmail(id)
      [] op = "unstarEmail" -> UnstarEmail(id)
      [] op = "archiveEmail" -> ArchiveEmail(id)
      [] op = "batchModifyEmails" -> RpcOp(op, "messages.batchModify")
      [] op = "getEmailWithUnsubscribe" -> GetEmailWithUnsubscribe(id)
      [] op = "findMarketingEmails" -> FindMarketingEmails(n)
      [] op = "getUnreadCount" -> GetUnreadCount
      [] op = "trashEmail" -> ByIdOp(op, "messages.trash", id)
      [] op = "deleteEmail" -> ByIdOp(op, "messages.delete", id)
      [] op = "untrashEmail" -> ByIdOp(op, "messages.untrash", id)
      [] op \in {"replyToEmail", "forwardEmail"} -> FetchThenSend(op, id)
      [] op = "getThread" -> NullableOp(op, "threads.get", id)
      [] op = "listDrafts" -> ListDrafts(n)
      [] op = "getDraft" -> NullableOp(op, "drafts.get", id)
      [] op = "createDraft" -> RpcOp(op, "drafts.create")
      [] op = "updateDraft" -> ByIdOp(op, "drafts.update", id)
      [] op = "deleteDraft" -> ByIdOp(op, "drafts.delete", id)
      [] op = "sendDraft" -> ByIdOp(op, "drafts.send", id)
      [] op = "getEmailWithAttachments" -> NullableOp(op, "messages.get", id)
      [] op = "getAttachment" -> NullableOp(op, "attachments.get", id2)
      [] op = "getVacationSettings" -> RpcOp(op, "settings.getVacation")
      [] op = "setVacationSettings" -> RpcOp(op, "settings.updateVacation")

-----------------------------------------------------------------------------
(* Responses *)

Resp(status, success, keys, payload) ==
    [status |-> status, success |-> success, keys |-> keys, payload |-> payload]

NoResp == Resp(0, FALSE, {}, NotRun)

\* A failure answered with the error alone, success left at its default
ErrorRespBare(status, msg) == Resp(status, TRUE, {"error"}, ErrorV(msg))

ErrorResp(status, msg) == Resp(status, FALSE, {"success", "error"}, ErrorV(msg))

\* res.status(400).json({success: false, error: 'Invalid request', details})
InvalidResp ==
    Resp(400, FALSE, {"success", "error", "details"}, ErrorV("Invalid request"))

Handled(resp_, cs, op) == [resp |-> resp_, calls |-> cs, op |-> op]

-----------------------------------------------------------------------------
(* authenticateApiKey *)

\* A check that only rejects a header that is present and wrong
AuthPassesLax(configKey, headerKey) ==
    \/ configKey \in {Undefined, ""}
    \/ headerKey \in {Undefined, ""}
    \/ headerKey = configKey

\* A check without the !config.API_KEY pass-through
AuthPassesStrict(configKey, headerKey) == headerKey = configKey

\* !config.API_KEY lets every request through; otherwise the header must be
\* present and equal to the configured key.
AuthPasses(configKey, headerKey) ==
    \/ configKey \in {Undefined, ""}
    \/ ~(headerKey \in {Undefined, ""} \/ headerKey # configKey)

-----------------------------------------------------------------------------
(* REST handlers *)

\* Handlers that validate req.body against a zod schema first
SchemaHandlers == {
    "searchEmails", "sendEmail", "createLabel", "modifyEmail",
    "batchModifyEmails", "replyToEmail", "forwardEmail", "createDraft",
    "updateDraft", "setVacationSettings", "updateLabel" }

\* Handlers that answer 404 when the adapter returns null
NotFoundHandlers == {
    "getEmail", "getEmailWithAttachments", "getAttachment", "getThread",
    "getDraft" }

\* Fields of the success body besides success
RestKeys(h) ==
    CASE h \in {"listEmails", "searchEmails", "findMarketingEmails"} ->
            {"count", "emails"}
      [] h = "getEmail" -> {"email"}
      [] h \in {"sendEmail", "replyToEmail", "forwardEmail", "sendDraft"} ->
            {"message", "id", "threadId"}
      [] h = "getLabels" -> {"count", "labels"}
      [] h \in {"createLabel", "updateLabel"} -> {"message", "label"}
      [] h = "getEmailWithUnsubscribe" ->
            {"email", "unsubscribeLinks", "unsubscribeEmail", "hasUnsubscribe"}
      [] h = "getUnreadCount" -> {"count"}
      [] h = "getEmailWithAttachments" -> {"email", "attachments"}
      [] h = "getAttachment" -> {"data", "size"}
      [] h = "getThread" -> {"thread"}
      [] h = "listDrafts" -> {"count", "drafts"}
      [] h = "getDraft" -> {"draft"}
      [] h \in {"createDraft", "updateDraft"} -> {"message", "id", "messageId"}
      [] h = "getVacationSettings" -> {"settings"}
      [] OTHER -> {"message"}

\* A handler that ignores the maxResults of the request
RestMaxResultsIgnored(h, r) == DefaultMaxResults

\* The maxResults a REST handler passes to the adapter
RestMaxResults(h, r) ==
    IF h = "searchEmails"
    THEN (IF r.n = NaN THEN DefaultMaxResults ELSE r.n)  \* schema .default(10)
    ELSE OrDefault(ParseInt(r.qs))

\* A schema without the bounds on maxResults
SchemaOkUnbounded(h, r) == r.valid

\* safeParse of the handler's schema
SchemaOk(h, r) ==
    r.valid /\ (h = "searchEmails" => (r.n = NaN \/ r.n >= 1))

\* GET /api/emails/marketing: getEmailWithUnsubscribe of every email found
RECURSIVE UnsubscribeCalls(_)
UnsubscribeCalls(ids) ==
    IF ids = <<>> THEN <<>>
    ELSE GetEmailWithUnsubscribe(Head(ids)).calls \o UnsubscribeCalls(Tail(ids))

\* The handler h on request r with route parameters id, id2
RestHandler(h, r, id, id2) ==
    IF h \in SchemaHandlers /\ ~SchemaOk(h, r)
    THEN Handled(InvalidResp, <<>>, "none")
    ELSE
      LET a == Adapter(h, id, id2, RestMaxResults(h, r))
          more == IF h = "findMarketingEmails" /\ a.out.kind = "emails"
                  THEN UnsubscribeCalls(a.out.ids) ELSE <<>>
          missing == \/ h \in NotFoundHandlers /\ a.out.kind = "null"
                     \/ a.out.kind = "unsubscribe" /\ ~a.out.found
      IN  IF a.out.kind = "throw"
          THEN Handled(ErrorResp(500, "backend"), a.calls, h)
          ELSE IF missing
          THEN Handled(ErrorResp(404, "not found"), a.calls, h)
          ELSE Handled(Resp(200, TRUE, {"success"} \cup RestKeys(h), a.out),
                       a.calls \o more, h)

-----------------------------------------------------------------------------
(* POST /api/call *)

\* The JSON value of an argument 'to': absent, one string, or an array
NoTo == [type |-> "undefined"]
StringTo(address) == [type |-> "string", value |-> address]
ArrayTo(items) == [type |-> "array", items |-> items]

\* The tools of POST /api/call whose arguments hold a recipient list 'to'
ToTools == {"send_email", "forward_email", "create_draft", "update_draft"}

\* Array.isArray(args.to) ? args.to : [args.to]
Wrapped(to) == IF to.type = "array" THEN to ELSE ArrayTo(<<to.value>>)

\* The 'to' the case of a tool hands to its adapter operation: send_email
\* passes args as it came, the other three wrap a value that is no array
CallTo(tool, to) ==
    IF tool \in {"forward_email", "create_draft", "update_draft"}
    THEN Wrapped(to) ELSE to

\* The adapter operation op on params whose 'to' is the given value:
\* params.to.join(', ') throws a TypeError on a value that is no array,
\* before any backend call in sendEmail, createDraft and updateDraft, after
\* the fetch of the source message in forwardEmail
AdapterOn(op, id, id2, n, to) ==
    IF op \in {"sendEmail", "createDraft", "updateDraft", "forwardEmail"}
       /\ to.type # "array"
    THEN IF op = "forwardEmail"
         THEN LET g == Call("messages.get", id, ByIdOk(id))
              IN  Result(Throw, <<g>>)
         ELSE Result(Throw, <<>>)
    ELSE Adapter(op, id, id2, n)

CS(op, needsId, needsRest) == [op |-> op, needsId |-> needsId, needsRest |-> needsRest]

\* switch (tool): the adapter operation of each case and the arguments its
\* presence check requires (an id argument; the other required arguments)
CallSpec(tool) ==
    CASE tool = "list_emails" -> CS("listEmails", FALSE, FALSE)
      [] tool = "get_email" -> CS("getEmail", TRUE, FALSE)
      [] tool = "search_emails" -> CS("searchEmails", FALSE, TRUE)
      [] tool = "send_email" -> CS("sendEmail", FALSE, TRUE)
      [] tool = "get_labels" -> CS("getLabels", FALSE, FALSE)
      [] tool = "modify_email" -> CS("modifyEmail", TRUE, FALSE)
      [] tool = "mark_read" -> CS("markAsRead", TRUE, FALSE)
      [] tool = "mark_unread" -> CS("markAsUnread", TRUE, FALSE)
      [] tool = "trash_email" -> CS("trashEmail", TRUE, FALSE)
      [] tool = "create_label" -> CS("createLabel", FALSE, TRUE)
      [] tool = "delete_label" -> CS("deleteLabel", TRUE, FALSE)
      [] tool = "star_email" -> CS("starEmail", TRUE, FALSE)
      [] tool = "unstar_email" -> CS("unstarEmail", TRUE, FALSE)
      [] tool = "archive_email" -> CS("archiveEmail", TRUE, FALSE)
      [] tool = "batch_modify" -> CS("batchModifyEmails", FALSE, TRUE)
      [] tool = "get_unsubscribe_info" -> CS("getEmailWithUnsubscribe", TRUE, FALSE)
      [] tool = "find_marketing_emails" -> CS("findMarketingEmails", FALSE, FALSE)
      [] tool = "reply_email" -> CS("replyToEmail", TRUE, TRUE)
      [] tool = "forward_email" -> CS("forwardEmail", TRUE, TRUE)
      [] tool = "get_thread" -> CS("getThread", TRUE, FALSE)
      [] tool = "list_drafts" -> CS("listDrafts", FALSE, FALSE)
      [] tool = "get_draft" -> CS("getDraft", TRUE, FALSE)
      [] tool = "create_draft" -> CS("createDraft", FALSE, TRUE)
      [] tool = "update_draft" -> CS("updateDraft", TRUE, TRUE)
      [] tool = "delete_draft" -> CS("deleteDraft", TRUE, FALSE)
      [] tool = "send_draft" -> CS("sendDraft", TRUE, FALSE)
      [] tool = "get_email_attachments" -> CS("getEmailWithAttachments", TRUE, FALSE)
      [] tool = "download_attachment" -> CS("getAttachment", TRUE, TRUE)
      [] tool = "update_label" -> CS("updateLabel", TRUE, TRUE)
      [] tool = "get_unread_count" -> CS("getUnreadCount", FALSE, FALSE)
      [] tool = "delete_email" -> CS("deleteEmail", TRUE, FALSE)
      [] tool = "untrash_email" -> CS("untrashEmail", TRUE, FALSE)
      [] tool = "get_vacation_settings" -> CS("getVacationSettings", FALSE, FALSE)
      [] tool = "set_vacation_settings" -> CS("setVacationSettings", FALSE, TRUE)
      [] OTHER -> CS("unknown", FALSE, FALSE)

\* The params the case of POST /api/call hands to an adapter operation that
\* takes recipients, when the presence checks let the request through
CallParams(r) ==
    IF /\ r.tool \in ToTools
       /\ r.valid
       /\ CallSpec(r.tool).needsId => r.id # Undefined
    THEN [kind |-> "params", to |-> CallTo(r.tool, r.to)]
    ELSE NotRun

\* The handler of POST /api/call on request r
CallTool(r) ==
    IF r.tool = Undefined
    THEN Handled(ErrorResp(400, "Missing required field: tool"), <<>>, "none")
    ELSE
      LET s == CallSpec(r.tool)
      IN  IF s.op = "unknown"
          THEN Handled(ErrorResp(400, "Unknown tool"), <<>>, "none")
          ELSE IF (s.needsId /\ r.id = Undefined) \/ (s.needsRest /\ ~r.valid)
          THEN Handled(ErrorResp(400, "required"), <<>>, "none")
          ELSE
            LET a == AdapterOn(s.op, r.id, r.id, OrDefault(r.n),
                               CallTo(r.tool, r.to))
            IN  IF a.out.kind = "throw"
                THEN Handled(ErrorResp(500, "backend"), a.calls, s.op)
                ELSE Handled(Resp(200, TRUE, {"success", "data"}, a.out),
                             a.calls, s.op)

-----------------------------------------------------------------------------
(* Requests *)

Methods == {"GET", "POST", "PUT", "DELETE"}
HeaderKeys == {Undefined, "secret", "wrong"}
ConfigKeys == {Undefined, "", "secret"}
MaxResultsArgs == {NaN} \cup (0..MaxN)

\* req.query.maxResults as sent: digits, or text parseInt cannot read
QueryTexts == SeqsUpTo({Digits[d + 1] : d \in 0..MaxN} \cup {"x"}, MaxText)

\* qs: the maxResults query parameter (<<>> when absent); n: the maxResults
\* number of a JSON body (NaN when absent); valid: the rest of the body has
\* what the schema or the presence check of the handler requires
Req(m, p, k, qs, n, v, t, id) ==
    [method |-> m, path |-> p, key |-> k, qs |-> qs, n |-> n, valid |-> v,
     tool |-> t, id |-> id, to |-> NoTo]

NoReq == Req("-", <<>>, Undefined, <<>>, NaN, TRUE, Undefined, Undefined)

\* The paths a route pattern stands for, its parameters drawn from Ids
Instances(pattern) ==
    { [i \in 1..Len(pattern) |->
          IF pattern[i] \in ParamSegs THEN f[i] ELSE pattern[i]] :
      f \in [1..Len(pattern) -> Ids] }

\* Method and path of every registered route, and two that match none
Targets ==
    UNION { {<<Routes[i].method, p>> : p \in Instances(Routes[i].path)} :
            i \in 1..Len(Routes) }
    \cup {<<"GET", <<"api", "nothing">>>>, <<"POST", <<"api", "emails">>>>}

\* Routes whose handler reads req.query.maxResults
TakesQueryMaxResults(t) ==
    t[1] = "GET" /\ t[2] \in {<<"api", "emails">>, <<"api", "drafts">>,
                              <<"api", "emails", "marketing">>}

\* Routes whose handler reads maxResults from req.body
TakesBodyMaxResults(t) ==
    t[1] = "POST" /\ t[2] = <<"api", "emails", "search">>

CallPath == <<"api", "call">>

\* A request without the key sent by a configured client carries no more
\* than its method and path (and, for POST /api/call, its tool).
Bare(r) == r.qs = <<>> /\ r.n = NaN /\ r.valid /\ r.id = Undefined

RestRequests ==
    { Req(t[1], t[2], k, qn[1], qn[2], v, Undefined, Undefined) :
        t \in {x \in Targets : x[2] # CallPath}, k \in HeaderKeys,
        qn \in ({<<>>} \X MaxResultsArgs) \cup (QueryTexts \X {NaN}),
        v \in BOOLEAN }

CallToolNames ==
    AdvertisedNames \cup ReadmeTools \cup {Undefined, "no_such_tool"}

ToolsTakingMaxResults ==
    {"list_emails", "search_emails", "find_marketing_emails", "list_drafts"}

\* Values of 'to' a client sends
ToArgs ==
    {NoTo, StringTo("ann@x"), ArrayTo(<<"ann@x">>),
     ArrayTo(<<"ann@x", "bob@x">>)}

CallRequests ==
    { [Req("POST", CallPath, k, <<>>, n, v, t, id) EXCEPT !.to = to] :
        k \in HeaderKeys, n \in MaxResultsArgs, v \in BOOLEAN,
        t \in CallToolNames, id \in Ids \cup {Undefined}, to \in ToArgs }

\* Requests a client sends: fields a handler never reads are left absent
Requests ==
    { r \in RestRequests :
        /\ r.key # "secret" => Bare(r)
        /\ r.qs # <<>> => TakesQueryMaxResults(<<r.method, r.path>>)
        /\ r.n # NaN => TakesBodyMaxResults(<<r.method, r.path>>)
        /\ ~r.valid => r.method \in {"POST", "PUT"} }
    \cup
    { r \in CallRequests :
        /\ r.key # "secret" =>
              Bare(r) /\ r.to \in {NoTo, ArrayTo(<<"ann@x">>)}
        /\ r.to # NoTo <=> (r.tool \in ToTools /\ r.valid)
        /\ r.n # NaN => r.tool \in ToolsTakingMaxResults
        /\ r.id # Undefined =>
              (CallSpec(r.tool).needsId \/ CallSpec(r.tool).op = "unknown")
        /\ ~r.valid => CallSpec(r.tool).needsRest }

-----------------------------------------------------------------------------
(* auth.ts: the OAuth2 client the service shares among requests *)

\* EnvConfig: GOOGLE_ACCESS_TOKEN is optional, GOOGLE_REFRESH_TOKEN required
EnvConfig(accessToken, refreshToken) ==
    [GOOGLE_ACCESS_TOKEN |-> accessToken, GOOGLE_REFRESH_TOKEN |-> refreshToken]

EnvConfigs == {EnvConfig(a, r) : a \in {Undefined, "at0"}, r \in {"rt0", "rt9"}}

\* oauth2Client.setCredentials({access_token, refresh_token, token_type})
InitialCredentials(config) ==
    [access_token |-> config.GOOGLE_ACCESS_TOKEN,
     refresh_token |-> config.GOOGLE_REFRESH_TOKEN,
     token_type |-> "Bearer"]

\* The tokens a 'tokens' event carries: the backend answers a refresh with
\* or without an access token, with or without a refresh token
TokenEvents ==
    [access_token : {Undefined, "at1", "at2"},
     refresh_token : {Undefined, "rt1"}]

\* The 'tokens' listener storing the tokens alone
OnTokensReplacing(current, tokens) ==
    IF tokens.access_token \notin {Undefined, ""}
    THEN [access_token |-> tokens.access_token,
          refresh_token |-> tokens.refresh_token,
          token_type |-> Undefined]
    ELSE current

\* oauth2Client.on('tokens', ...): the credentials the listener leaves
OnTokens(current, tokens) ==
    IF tokens.access_token \notin {Undefined, ""}
    THEN [current EXCEPT !.access_token = tokens.access_token]
    ELSE current

\* The client as createOAuth2Client returns it, no request under way
OAuthIdle ==
    /\ oauthConfig = EnvConfig(Undefined, "rt0")
    /\ credentials = InitialCredentials(oauthConfig)
    /\ tokenEvents = <<>>
    /\ inflight = <<>>

-----------------------------------------------------------------------------
(* Initial states *)

Listings == SeqsUpTo(Ids, MaxList)

\* A mailbox lists no message twice.
Mailboxes == {l \in Listings : \A i, j \in 1..Len(l) : l[i] = l[j] => i = j}

HttpIdle ==
    /\ pc = "idle"
    /\ req = NoReq
    /\ route = 0
    /\ invoked = "none"
    /\ calls = <<>>
    /\ resp = NoResp

\* The server after start-up, before a backend whose one mailbox answers
\* every query and which is either up or down for the calls without an id
Init ==
    /\ apiKey \in ConfigKeys
    /\ \E l \in Mailboxes : listing = [q \in Queries |-> l]
    /\ unavailable \in SUBSET Ids
    /\ down \in {{}, FailPoints}
    /\ HttpIdle
    /\ mkMax = 0
    /\ mkOut = NotRun
    /\ fnArg = NotRun
    /\ fnOut = NotRun
    /\ OAuthIdle

-----------------------------------------------------------------------------
(* The Express chain *)

\* A request arrives and Express looks up its route.
Receive ==
    /\ pc = "idle"
    /\ \E r \in Requests :
        /\ req' = r
        /\ route' = MatchRoute(r.method, r.path)
    /\ pc' = "matched"
    /\ UNCHANGED <<apiKey, invoked, calls, resp, backendVars, mkVars, fnVars, authVars>>

\* app.get('/health'): no authentication, no backend
Health ==
    /\ pc = "matched"
    /\ route # 0
    /\ ~Routes[route].auth
    /\ resp' = Resp(200, FALSE, {"status", "timestamp", "service"}, Done("health"))
    /\ pc' = "done"
    /\ UNCHANGED <<apiKey, req, route, invoked, calls, backendVars, mkVars, fnVars, authVars>>

\* The 404 handler registered after every route
NotFound ==
    /\ pc = "matched"
    /\ route = 0
    /\ resp' = ErrorResp(404, "Endpoint not found")
    /\ pc' = "done"
    /\ UNCHANGED <<apiKey, req, route, invoked, calls, backendVars, mkVars, fnVars, authVars>>

\* authenticateApiKey: answer 401 or pass the request on to the handler
AuthenticateApiKey ==
    /\ pc = "matched"
    /\ route # 0
    /\ Routes[route].auth
    /\ IF AuthPasses(apiKey, req.key)
       THEN pc' = "handler" /\ resp' = resp
       ELSE pc' = "done" /\ resp' = ErrorResp(401, "Unauthorized")
    /\ UNCHANGED <<apiKey, req, route, invoked, calls, backendVars, mkVars, fnVars, authVars>>

\* app.get('/api/tools')
ListTools ==
    /\ pc = "handler"
    /\ Routes[route].handler = "tools"
    /\ resp' = Resp(200, TRUE, {"success", "tools"},
                    [kind |-> "tools", names |-> AdvertisedNames])
    /\ pc' = "done"
    /\ UNCHANGED <<apiKey, req, route, invoked, calls, backendVars, mkVars, fnVars, authVars>>

\* A REST handler runs to its response.
RestRoute ==
    /\ pc = "handler"
    /\ Routes[route].handler \notin {"tools", "call"}
    /\ LET h == RestHandler(Routes[route].handler, req,
                            ParamValue(route, req.path, 1),
                            ParamValue(route, req.path, 2))
       IN  /\ resp' = h.resp
           /\ calls' = h.calls
           /\ invoked' = h.op
    /\ pc' = "done"
    /\ UNCHANGED <<apiKey, req, route, backendVars, mkVars, fnVars, authVars>>

\* app.post('/api/call') runs to its response.
CallRoute ==
    /\ pc = "handler"
    /\ Routes[route].handler = "call"
    /\ LET h == CallTool(req)
       IN  /\ resp' = h.resp
           /\ calls' = h.calls
           /\ invoked' = h.op
    /\ fnArg' = CallParams(req)
    /\ pc' = "done"
    /\ UNCHANGED <<apiKey, req, route, fnOut, backendVars, mkVars, authVars>>

\* The response is sent; the server waits for the next request.
Finish ==
    /\ pc = "done"
    /\ pc' = "idle"
    /\ req' = NoReq
    /\ route' = 0
    /\ invoked' = "none"
    /\ calls' = <<>>
    /\ resp' = NoResp
    /\ fnArg' = NotRun
    /\ UNCHANGED <<apiKey, fnOut, backendVars, mkVars, authVars>>

Next ==
    \/ Receive
    \/ Health
    \/ NotFound
    \/ AuthenticateApiKey
    \/ ListTools
    \/ RestRoute
    \/ CallRoute
    \/ Finish

Spec == Init /\ [][Next]_vars

-----------------------------------------------------------------------------
(* findMarketingEmails on its own, over every answer of its three queries *)

InitMarketing ==
    /\ apiKey = Undefined
    /\ \E found \in [1..Len(MarketingQueries) -> Listings] :
         listing = [q \in Queries |->
                       IF \E i \in 1..Len(MarketingQueries) : MarketingQueries[i] = q
                       THEN found[CHOOSE i \in 1..Len(MarketingQueries) :
                                      MarketingQueries[i] = q]
                       ELSE <<>>]
    /\ unavailable \in SUBSET Ids
    /\ down \in SUBSET Range(MarketingQueries)
    /\ HttpIdle
    /\ mkMax \in 1..(MaxN + 1)
    /\ mkOut = NotRun
    /\ fnArg = NotRun
    /\ fnOut = NotRun
    /\ OAuthIdle

RunFindMarketingEmails ==
    /\ mkOut = NotRun
    /\ mkOut' = FindMarketingEmails(mkMax)
    /\ UNCHANGED <<mkMax, httpVars, backendVars, fnVars, authVars>>

NextMarketing == RunFindMarketingEmails

SpecMarketing == InitMarketing /\ [][NextMarketing]_vars

-----------------------------------------------------------------------------
(* Texts: a string is the sequence of its characters; an address, a display *)
(* name, a body or a boundary token stands in it as one word                *)

\* Array.prototype.join(sep) on texts
RECURSIVE Join(_, _)
Join(texts, sep) ==
    IF texts = <<>> THEN <<>>
    ELSE IF Len(texts) = 1 THEN texts[1]
    ELSE texts[1] \o sep \o Join(Tail(texts), sep)

\* String.prototype.split(','): piece is the text since the last comma
RECURSIVE SplitLoop(_, _, _)
SplitLoop(text, piece, pieces) ==
    IF text = <<>> THEN Append(pieces, piece)
    ELSE IF Head(text) = ","
    THEN SplitLoop(Tail(text), <<>>, Append(pieces, piece))
    ELSE SplitLoop(Tail(text), Append(piece, Head(text)), pieces)

Split(text) == SplitLoop(text, <<>>, <<>>)

RECURSIVE TrimStart(_)
TrimStart(text) ==
    IF text # <<>> /\ Head(text) = " " THEN TrimStart(Tail(text)) ELSE text

RECURSIVE TrimEnd(_)
TrimEnd(text) ==
    IF text # <<>> /\ text[Len(text)] = " "
    THEN TrimEnd(SubSeq(text, 1, Len(text) - 1)) ELSE text

\* String.prototype.trim()
Trim(text) == TrimEnd(TrimStart(text))

\* String.prototype.startsWith(prefix)
StartsWith(text, prefix) ==
    Len(text) >= Len(prefix) /\ SubSeq(text, 1, Len(prefix)) = prefix

-----------------------------------------------------------------------------
(* replyToEmail: the recipients of the reply *)

Addresses == {"ann@x", "bob@x"}
DisplayNames == {"Ann"}

\* A mailbox as a header carries it: the bare address, or a display name
\* followed by the address in angle brackets
AddrOnly(addr) == <<addr>>
NameAddr(name, addr) == <<name, " ", "<", addr, ">">>

MailboxTexts ==
    {AddrOnly(a) : a \in Addresses}
    \cup {NameAddr(n, a) : n \in DisplayNames, a \in Addresses}

\* The value of a To or Cc header listing the given mailboxes
HeaderValue(mailboxes) == Join(mailboxes, <<",", " ">>)

\* Set.prototype.add on a Set kept in insertion order
SetAdd(set, x) == IF x \in Range(set) THEN set ELSE Append(set, x)

\* header.split(',').forEach(r => allRecipients.add(r.trim()))
RECURSIVE AddTrimmed(_, _)
AddTrimmed(set, pieces) ==
    IF pieces = <<>> THEN set
    ELSE AddTrimmed(SetAdd(set, Trim(Head(pieces))), Tail(pieces))

\* A reply that always goes to everybody
ReplyRecipientsAll(originalFrom, originalTo, originalCc, replyAll) ==
    LET s1 == <<originalFrom>>
        s2 == IF originalTo # <<>> THEN AddTrimmed(s1, Split(originalTo)) ELSE s1
    IN  IF originalCc # <<>> THEN AddTrimmed(s2, Split(originalCc)) ELSE s2

\* toRecipients of replyToEmail
ReplyRecipients(originalFrom, originalTo, originalCc, replyAll) ==
    IF replyAll
    THEN LET s1 == SetAdd(<<>>, originalFrom)
             s2 == IF originalTo # <<>>
                   THEN AddTrimmed(s1, Split(originalTo)) ELSE s1
         IN  IF originalCc # <<>> THEN AddTrimmed(s2, Split(originalCc)) ELSE s2
    ELSE <<originalFrom>>

\* emailLines.push(`To: ${toRecipients.join(', ')}`), without the field name
ToLine(toRecipients) == Join(toRecipients, <<",", " ">>)

-----------------------------------------------------------------------------
(* replyToEmail: the headers that thread the reply *)

\* String.prototype.toLowerCase() on one character
Lower(c) ==
    CASE c = "R" -> "r"
      [] c = "E" -> "e"
      [] c = "F" -> "f"
      [] c = "W" -> "w"
      [] c = "D" -> "d"
      [] c = "M" -> "m"
      [] c = "I" -> "i"
      [] c = "HTTPS://" -> "https://"
      [] c = "Unsubscribe" -> "unsubscribe"
      [] OTHER -> c

ToLowerCase(text) == [i \in 1..Len(text) |-> Lower(text[i])]

Header(name, value) == [name |-> name, value |-> value]

\* getHeader(name): the value of the first header of that name, whatever the
\* letter case, '' when there is none or it has no value
GetHeader(headers, name) ==
    LET found == {i \in 1..Len(headers) :
                     ToLowerCase(headers[i].name) = ToLowerCase(name)}
    IN  IF found = {} THEN <<>>
        ELSE headers[CHOOSE i \in found : \A j \in found : i <= j].value

MessageIdName == <<"M", "essage-", "I", "D">>
ReferencesName == <<"R", "eferences">>

\* The reply naming the original alone in References
ReplyThreadLinesOwnId(messageId, references) ==
    << <<"In-Reply-To: ">> \o messageId,
       <<"References: ">> \o messageId >>

\* The In-Reply-To and References lines of the reply
ReplyThreadLines(messageId, references) ==
    << <<"In-Reply-To: ">> \o messageId,
       <<"References: ">> \o (IF references # <<>>
                              THEN references \o <<" ">> \o messageId
                              ELSE messageId) >>

\* requestBody.threadId: original.data.threadId || undefined
ReplyThreadId(threadId) == IF threadId \in {Undefined, ""} THEN Undefined ELSE threadId

-----------------------------------------------------------------------------
(* replyToEmail, forwardEmail: the subject *)

\* A prefix test that tells the letter cases apart
ReplySubjectExact(originalSubject) ==
    IF StartsWith(originalSubject, <<"R", "e", ":">>)
    THEN originalSubject
    ELSE <<"R", "e", ":", " ">> \o originalSubject

\* replySubject of replyToEmail
ReplySubject(originalSubject) ==
    IF StartsWith(ToLowerCase(originalSubject), <<"r", "e", ":">>)
    THEN originalSubject
    ELSE <<"R", "e", ":", " ">> \o originalSubject

\* A prefix test that tells the letter cases apart
ForwardSubjectExact(originalSubject) ==
    IF StartsWith(originalSubject, <<"F", "w", "d", ":">>)
    THEN originalSubject
    ELSE <<"F", "w", "d", ":", " ">> \o originalSubject

\* forwardSubject of forwardEmail
ForwardSubject(originalSubject) ==
    IF StartsWith(ToLowerCase(originalSubject), <<"f", "w", "d", ":">>)
    THEN originalSubject
    ELSE <<"F", "w", "d", ":", " ">> \o originalSubject

-----------------------------------------------------------------------------
(* sendEmail, createDraft: the message composed *)

CRLF == "\r\n"

\* The UTF-16 code unit of a character of a JavaScript string; "<D83D>" and
\* "<DE00>" are the two surrogates of U+1F600, each a code unit of its own
CodeUnit(c) ==
    CASE c = "M" -> 77
      [] c = "é" -> 233
      [] c = "€" -> 8364
      [] c = "<D83D>" -> 55357
      [] c = "<DE00>" -> 56832

CodeUnits(text) == [i \in 1..Len(text) |-> CodeUnit(text[i])]

\* /[^\x00-\x7F]/ : the characters above 0x7F among those texts are written
\* with
NonAscii == {c \in {"é", "€", "<D83D>", "<DE00>"} : CodeUnit(c) > 127}

IsHighSurrogate(u) == u >= 55296 /\ u <= 56319
IsLowSurrogate(u) == u >= 56320 /\ u <= 57343

\* The UTF-8 bytes of one code point
Utf8Bytes(cp) ==
    IF cp < 128 THEN <<cp>>
    ELSE IF cp < 2048 THEN <<192 + (cp \div 64), 128 + (cp % 64)>>
    ELSE IF cp < 65536
    THEN <<224 + (cp \div 4096), 128 + ((cp \div 64) % 64), 128 + (cp % 64)>>
    ELSE <<240 + (cp \div 262144), 128 + ((cp \div 4096) % 64),
           128 + ((cp \div 64) % 64), 128 + (cp % 64)>>

\* Buffer.from(text): the string's code units as UTF-8; a surrogate pair is
\* one code point, a surrogate without its partner becomes U+FFFD
RECURSIVE Utf8Every(_)
Utf8Every(units) ==
    IF units = <<>> THEN <<>>
    ELSE Utf8Bytes(units[1]) \o Utf8Every(Tail(units))

RECURSIVE Utf8(_)
Utf8(units) ==
    IF units = <<>> THEN <<>>
    ELSE IF /\ IsHighSurrogate(units[1])
            /\ Len(units) > 1
            /\ IsLowSurrogate(units[2])
    THEN Utf8Bytes(65536 + (units[1] - 55296) * 1024 + (units[2] - 56320))
         \o Utf8(Tail(Tail(units)))
    ELSE IF IsHighSurrogate(units[1]) \/ IsLowSurrogate(units[1])
    THEN Utf8Bytes(65533) \o Utf8(Tail(units))
    ELSE Utf8Bytes(units[1]) \o Utf8(Tail(units))

Base64Alphabet ==
    <<"A", "B", "C", "D", "E", "F", "G", "H", "I", "J", "K", "L", "M",
      "N", "O", "P", "Q", "R", "S", "T", "U", "V", "W", "X", "Y", "Z",
      "a", "b", "c", "d", "e", "f", "g", "h", "i", "j", "k", "l", "m",
      "n", "o", "p", "q", "r", "s", "t", "u", "v", "w", "x", "y", "z",
      "0", "1", "2", "3", "4", "5", "6", "7", "8", "9", "+", "/">>

\* .toString('base64'): three bytes to four characters, "=" for the bytes
\* the last group lacks
RECURSIVE Base64Bytes(_)
Base64Bytes(bytes) ==
    IF bytes = <<>> THEN <<>>
    ELSE IF Len(bytes) = 1
    THEN <<Base64Alphabet[(bytes[1] \div 4) + 1],
           Base64Alphabet[((bytes[1] % 4) * 16) + 1], "=", "=">>
    ELSE IF Len(bytes) = 2
    THEN <<Base64Alphabet[(bytes[1] \div 4) + 1],
           Base64Alphabet[((bytes[1] % 4) * 16) + (bytes[2] \div 16) + 1],
           Base64Alphabet[((bytes[2] % 16) * 4) + 1], "=">>
    ELSE <<Base64Alphabet[(bytes[1] \div 4) + 1],
           Base64Alphabet[((bytes[1] % 4) * 16) + (bytes[2] \div 16) + 1],
           Base64Alphabet[((bytes[2] % 16) * 4) + (bytes[3] \div 64) + 1],
           Base64Alphabet[(bytes[3] % 64) + 1]>>
         \o Base64Bytes(SubSeq(bytes, 4, Len(bytes)))

\* Buffer.from(text).toString('base64')
Base64(text) == Base64Bytes(Utf8(CodeUnits(text)))

\* encodeHeader with the string's code units encoded one by one
EncodeHeaderUnitwise(text) ==
    IF \E i \in 1..Len(text) : text[i] \in NonAscii
    THEN <<"=?UTF-8?B?">> \o Base64Bytes(Utf8Every(CodeUnits(text)))
         \o <<"?=">>
    ELSE text

\* encodeHeader(text)
EncodeHeader(text) ==
    IF \E i \in 1..Len(text) : text[i] \in NonAscii
    THEN <<"=?UTF-8?B?">> \o Base64(text) \o <<"?=">>
    ELSE text

\* `----=_Part_${Math.random().toString(36).substring(2)}`
Boundary(random) == <<"----=_Part_", random>>

ComposeParams(to, cc, subject, body, htmlBody) ==
    [to |-> to, cc |-> cc, subject |-> subject, body |-> body,
     htmlBody |-> htmlBody]

\* The header lines sendEmail and createDraft start with; params.bcc is
\* absent
HeaderLines(params) ==
    <<<<"To: ">> \o Join(params.to, <<",", " ">>)>>
    \o (IF Len(params.cc) # 0
        THEN <<<<"Cc: ">> \o Join(params.cc, <<",", " ">>)>> ELSE <<>>)
    \o <<<<"Subject: ">> \o EncodeHeader(params.subject),
         <<"MIME-Version: 1.0">>>>

\* sendEmail with the HTML part pushed before the plain part
SendEmailLinesHtmlFirst(params, boundary) ==
    HeaderLines(params) \o
    (IF params.htmlBody # <<>>
     THEN << <<"Content-Type: ", "multipart/alternative", "; boundary=\"">>
                \o boundary \o <<"\"">>,
             <<>>,
             <<"--">> \o boundary,
             <<"Content-Type: ", "text/html; charset=UTF-8">>,
             <<>>,
             params.htmlBody,
             <<>>,
             <<"--">> \o boundary,
             <<"Content-Type: ", "text/plain; charset=UTF-8">>,
             <<>>,
             params.body,
             <<>>,
             <<"--">> \o boundary \o <<"--">> >>
     ELSE << <<"Content-Type: ", "text/plain; charset=UTF-8">>,
             <<>>,
             params.body >>)

\* sendEmail: emailLines
SendEmailLines(params, boundary) ==
    HeaderLines(params) \o
    (IF params.htmlBody # <<>>
     THEN << <<"Content-Type: ", "multipart/alternative", "; boundary=\"">>
                \o boundary \o <<"\"">>,
             <<>>,
             <<"--">> \o boundary,
             <<"Content-Type: ", "text/plain; charset=UTF-8">>,
             <<>>,
             params.body,
             <<>>,
             <<"--">> \o boundary,
             <<"Content-Type: ", "text/html; charset=UTF-8">>,
             <<>>,
             params.htmlBody,
             <<>>,
             <<"--">> \o boundary \o <<"--">> >>
     ELSE << <<"Content-Type: ", "text/plain; charset=UTF-8">>,
             <<>>,
             params.body >>)

\* createDraft without the empty line between the headers and the body
CreateDraftLinesNoBlank(params, boundary) ==
    HeaderLines(params) \o
    << <<"Content-Type: ", "text/plain; charset=UTF-8">>, params.body >>

\* createDraft: emailLines
CreateDraftLines(params, boundary) ==
    HeaderLines(params) \o
    (IF params.htmlBody # <<>>
     THEN << <<"Content-Type: ", "multipart/alternative", "; boundary=\"">>
                \o boundary \o <<"\"">>,
             <<>>,
             <<"--">> \o boundary,
             <<"Content-Type: ", "text/plain; charset=UTF-8">>,
             <<>>,
             params.body,
             <<>>,
             <<"--">> \o boundary,
             <<"Content-Type: ", "text/html; charset=UTF-8">>,
             <<>>,
             params.htmlBody,
             <<>>,
             <<"--">> \o boundary \o <<"--">> >>
     ELSE << <<"Content-Type: ", "text/plain; charset=UTF-8">>,
             <<>>,
             params.body >>)

\* emailLines.join('\r\n')
RawMessage(emailLines) == Join(emailLines, <<CRLF>>)

-----------------------------------------------------------------------------
(* The message functions of the adapter, each on every input in the bounds *)

MailboxLists == SeqsUpTo(MailboxTexts, MaxRcpt)

ReplySubjectChars == {"R", "r", "E", "e", ":", "M"}
ForwardSubjectChars == {"F", "f", "W", "w", "D", "d", ":", "M"}

PlainSubject == <<"M">>

\* The headers replyToEmail reads from the original message, and params
ReplyInput(from, to, cc, subject, replyAll) ==
    [kind |-> "reply", from |-> from, to |-> to, cc |-> cc,
     subject |-> subject, replyAll |-> replyAll,
     headers |-> <<Header(MessageIdName, <<"<m1@x>">>)>>, threadId |-> "t1"]

\* Message-ID and References headers as backends spell and fill them
ThreadHeaders ==
    {Header(n, <<v>>) :
        n \in {MessageIdName, <<"M", "essage-", "I", "d">>,
               <<"m", "essage-", "i", "d">>},
        v \in {"<m1@x>", "<m2@x>"}}
    \cup {Header(ReferencesName, v) :
             v \in {<<"<m0@x>">>, <<"<m0@x>", " ", "<m9@x>">>}}

\* Original messages with every sender and recipient headers, and original
\* messages with every subject; a header the message lacks reads as ''
ReplyInputs ==
    \/ \E f \in MailboxTexts \cup {<<>>}, t \in MailboxLists,
          c \in MailboxLists, ra \in BOOLEAN :
          fnArg = ReplyInput(f, HeaderValue(t), HeaderValue(c), PlainSubject, ra)
    \/ \E subj \in SeqsUpTo(ReplySubjectChars, MaxSubject) :
          fnArg = ReplyInput(<<"ann@x">>, <<"bob@x">>, <<>>, subj, FALSE)
    \/ \E hs \in SeqsUpTo(ThreadHeaders, MaxHeaders), tid \in {Undefined, "t1"} :
          fnArg = [ReplyInput(<<"ann@x">>, <<"bob@x">>, <<>>, PlainSubject, FALSE)
                      EXCEPT !.headers = hs, !.threadId = tid]

ForwardInputs ==
    \E subj \in SeqsUpTo(ForwardSubjectChars, MaxSubject) :
        fnArg = [kind |-> "forward", subject |-> subj]

\* Outcomes of Math.random().toString(36).substring(2)
Randoms == {"k3x9", "q7w2"}

\* Lines a plain body and an HTML body are written with
PlainLines == {<<"hello">>, <<>>, <<"--", "Ann">>}
HtmlLines == {<<"<p>hello</p>">>, <<>>}

\* Bodies of at most MaxBodyLines lines, as one text
Bodies(lines) == {Join(ls, <<CRLF>>) : ls \in SeqsUpTo(lines, MaxBodyLines)}

\* Recipient lists: one to MaxRcpt addresses
RecipientLists ==
    {[i \in 1..Len(l) |-> <<l[i]>>] : l \in SeqsUpTo(Addresses, MaxRcpt) \ {<<>>}}

\* What the handlers pass to sendEmail and createDraft: a recipient, a
\* subject and a body at least; '' stands for an absent htmlBody as well
ComposeInputs ==
    \E k \in {"send", "draft"}, to \in RecipientLists,
       cc \in {<<>>, <<<<"cat@x">>>>}, subj \in {<<"M">>, <<"é">>},
       b \in Bodies(PlainLines) \ {<<>>}, h \in Bodies(HtmlLines) :
        fnArg = [kind |-> k, params |-> ComposeParams(to, cc, subj, b, h)]

\* Characters subjects are written with: ASCII, two-byte, three-byte, and the
\* two halves of a four-byte character
SubjectChars == {"M", "é", "€", "<D83D>", "<DE00>"}

\* Every subject the handlers can pass on: z.string() accepts any string of
\* code units, JSON.parse yields unpaired surrogates from \uXXXX escapes
HeaderInputs ==
    \E subj \in SeqsUpTo(SubjectChars, MaxSubject) :
        fnArg = [kind |-> "header", text |-> subj]

MessageInputs ==
    ReplyInputs \/ ForwardInputs \/ ComposeInputs \/ HeaderInputs

InitMessage ==
    /\ apiKey = Undefined
    /\ listing = [q \in Queries |-> <<>>]
    /\ unavailable = {}
    /\ down = {}
    /\ HttpIdle
    /\ mkMax = 0
    /\ mkOut = NotRun
    /\ MessageInputs
    /\ fnOut = NotRun
    /\ OAuthIdle

\* replyToEmail builds the reply to the fetched original.
ReplyToEmail ==
    /\ fnOut = NotRun
    /\ fnArg.kind = "reply"
    /\ fnOut' = [kind |-> "reply",
                 toRecipients |-> ReplyRecipients(fnArg.from, fnArg.to,
                                                  fnArg.cc, fnArg.replyAll),
                 subject |-> ReplySubject(fnArg.subject),
                 threadLines |->
                     ReplyThreadLines(GetHeader(fnArg.headers, MessageIdName),
                                      GetHeader(fnArg.headers, ReferencesName)),
                 threadId |-> ReplyThreadId(fnArg.threadId)]
    /\ UNCHANGED <<fnArg, httpVars, backendVars, mkVars, authVars>>

\* forwardEmail builds the forward of the fetched original.
ForwardEmail ==
    /\ fnOut = NotRun
    /\ fnArg.kind = "forward"
    /\ fnOut' = [kind |-> "forward", subject |-> ForwardSubject(fnArg.subject)]
    /\ UNCHANGED <<fnArg, httpVars, backendVars, mkVars, authVars>>

\* sendEmail composes the message it sends.
SendEmail ==
    /\ fnOut = NotRun
    /\ fnArg.kind = "send"
    /\ \E random \in Randoms :
         fnOut' = [kind |-> "sent",
                   raw |-> RawMessage(SendEmailLines(fnArg.params,
                                                     Boundary(random)))]
    /\ UNCHANGED <<fnArg, httpVars, backendVars, mkVars, authVars>>

\* createDraft composes the message it stores.
CreateDraft ==
    /\ fnOut = NotRun
    /\ fnArg.kind = "draft"
    /\ \E random \in Randoms :
         fnOut' = [kind |-> "drafted",
                   raw |-> RawMessage(CreateDraftLines(fnArg.params,
                                                       Boundary(random)))]
    /\ UNCHANGED <<fnArg, httpVars, backendVars, mkVars, authVars>>

\* encodeHeader applied to a subject.
EncodeSubject ==
    /\ fnOut = NotRun
    /\ fnArg.kind = "header"
    /\ fnOut' = [kind |-> "encoded", text |-> EncodeHeader(fnArg.text)]
    /\ UNCHANGED <<fnArg, httpVars, backendVars, mkVars, authVars>>

NextMessage ==
    \/ ReplyToEmail
    \/ ForwardEmail
    \/ SendEmail
    \/ CreateDraft
    \/ EncodeSubject

SpecMessage == InitMessage /\ [][NextMessage]_vars

-----------------------------------------------------------------------------
(* Message payloads: the part tree users.messages.get returns *)

\* Schema$MessagePart: mimeType, filename, body.attachmentId, body.size,
\* body.data and parts; '' and <<>> stand for a field the part lacks
Part(mimeType, filename, attachmentId, size, data, parts) ==
    [mimeType |-> mimeType, filename |-> filename,
     attachmentId |-> attachmentId, size |-> size, data |-> data,
     parts |-> parts]

NoPart == Part("", "", "", 0, "", <<>>)

\* body.data is base64: the encoded contents and what they decode to
PlainData == "UA"
HtmlData == "SA"

\* Buffer.from(data, 'base64').toString('utf8')
Decode(data) ==
    CASE data = PlainData -> "P"
      [] data = HtmlData -> "H"
      [] OTHER -> ""

PlainPart == Part("text/plain", "", "", 1, PlainData, <<>>)
HtmlPart == Part("text/html", "", "", 1, HtmlData, <<>>)
AttachmentPart(n) ==
    IF n = 1 THEN Part("application/pdf", "one.pdf", "att1", 1, "", <<>>)
    ELSE Part("image/png", "two.png", "att2", 1, "", <<>>)

Multipart(parts) == Part("multipart/mixed", "", "", 0, "", parts)

LeafParts == {PlainPart, HtmlPart, AttachmentPart(1), AttachmentPart(2)}

\* The part trees of at most the given depth of containers
RECURSIVE PartTrees(_)
PartTrees(depth) ==
    IF depth = 0 THEN LeafParts
    ELSE LeafParts \cup
         {Multipart(ps) : ps \in SeqsUpTo(PartTrees(depth - 1), MaxParts) \ {<<>>}}

\* parts.find(p => p.mimeType === mimeType), NoPart when none is found
Find(parts, mimeType) ==
    LET hits == {i \in 1..Len(parts) : parts[i].mimeType = mimeType}
    IN  IF hits = {} THEN NoPart
        ELSE parts[CHOOSE i \in hits : \A j \in hits : i <= j]

\* getEmail: body
GetEmailBody(payload) ==
    IF payload.data # "" THEN Decode(payload.data)
    ELSE IF payload.parts # <<>>
    THEN LET textPart == Find(payload.parts, "text/plain")
             htmlPart == Find(payload.parts, "text/html")
         IN  IF textPart.data # "" THEN Decode(textPart.data)
             ELSE IF htmlPart.data # "" THEN Decode(htmlPart.data)
             ELSE ""
    ELSE ""

\* getThread: body of one message of the thread
ThreadMessageBody(payload) ==
    IF payload.data # "" THEN Decode(payload.data)
    ELSE IF payload.parts # <<>>
    THEN LET textPart == Find(payload.parts, "text/plain")
             htmlPart == Find(payload.parts, "text/html")
         IN  IF textPart.data # "" THEN Decode(textPart.data)
             ELSE IF htmlPart.data # "" THEN Decode(htmlPart.data)
             ELSE ""
    ELSE ""

\* attachments.push({filename, mimeType, size, attachmentId})
AttachmentInfo(part) ==
    [filename |-> part.filename,
     mimeType |-> IF part.mimeType = "" THEN "application/octet-stream"
                  ELSE part.mimeType,
     size |-> part.size,
     attachmentId |-> part.attachmentId]

Extracted(body, attachments) == [body |-> body, attachments |-> attachments]

\* extractParts(parts) of getEmailWithAttachments, on the body and the
\* attachments found so far
RECURSIVE ExtractParts(_, _)
ExtractParts(parts, sofar) ==
    IF parts = <<>> THEN sofar
    ELSE LET part == Head(parts)
             next ==
               IF part.filename # "" /\ part.attachmentId # ""
               THEN Extracted(sofar.body,
                              Append(sofar.attachments, AttachmentInfo(part)))
               ELSE IF /\ part.mimeType = "text/plain"
                       /\ part.data # ""
                       /\ sofar.body = ""
               THEN Extracted(Decode(part.data), sofar.attachments)
               ELSE IF part.parts # <<>>
               THEN ExtractParts(part.parts, sofar)
               ELSE sofar
         IN  ExtractParts(Tail(parts), next)

\* getEmailWithAttachments: body and attachments
GetEmailWithAttachmentsParts(payload) ==
    IF payload.data # "" THEN Extracted(Decode(payload.data), <<>>)
    ELSE IF payload.parts # <<>>
    THEN ExtractParts(payload.parts, Extracted("", <<>>))
    ELSE Extracted("", <<>>)

(* getEmailWithUnsubscribe: the links of the List-Unsubscribe header and of
   the body; a text is a sequence of words and delimiters *)

\* unsubscribeHeader.match(/<([^>]+)>/g), each match without its < and >
RECURSIVE AngleMatches(_)
AngleMatches(text) ==
    IF text = <<>> THEN <<>>
    ELSE IF text[1] # "<" THEN AngleMatches(Tail(text))
    ELSE LET closing == {j \in 2..Len(text) : text[j] = ">"}
             j == CHOOSE k \in closing : \A l \in closing : k <= l
         IN  IF closing = {} THEN <<>>
             ELSE IF j = 2 THEN AngleMatches(Tail(text))
             ELSE <<SubSeq(text, 2, j - 1)>>
                  \o AngleMatches(SubSeq(text, j + 1, Len(text)))

\* link.replace('mailto:', '').split('?')[0]
MailtoAddress(link) ==
    LET rest == Tail(link)
        marks == {i \in 1..Len(rest) : rest[i] = "?"}
    IN  IF marks = {} THEN rest
        ELSE SubSeq(rest, 1, (CHOOSE i \in marks : \A j \in marks : i <= j) - 1)

\* The for loop over the matches of the header
RECURSIVE HeaderLoop(_, _, _)
HeaderLoop(matches, links, email) ==
    IF matches = <<>> THEN [links |-> links, email |-> email]
    ELSE LET link == Head(matches)
         IN  IF StartsWith(link, <<"mailto:">>)
             THEN HeaderLoop(Tail(matches), links, MailtoAddress(link))
             ELSE IF StartsWith(link, <<"http://">>)
                     \/ StartsWith(link, <<"https://">>)
             THEN HeaderLoop(Tail(matches), Append(links, link), email)
             ELSE HeaderLoop(Tail(matches), links, email)

UrlDelimiters == {" ", "<", ">", "\""}
UnsubscribeWords ==
    {"unsubscribe", "opt-out", "optout", "remove", "preferences"}

\* body.match(urlRegex): a scheme, whatever its letter case, and the run up
\* to the next delimiter, when a keyword follows at least one character of
\* the run
RECURSIVE UrlMatches(_)
UrlMatches(body) ==
    IF body = <<>> THEN <<>>
    ELSE IF Lower(body[1]) \notin {"http://", "https://"}
    THEN UrlMatches(Tail(body))
    ELSE LET stops == {j \in 2..Len(body) : body[j] \in UrlDelimiters}
             end == IF stops = {} THEN Len(body)
                    ELSE (CHOOSE k \in stops : \A l \in stops : k <= l) - 1
         IN  IF \E i \in 3..end : Lower(body[i]) \in UnsubscribeWords
             THEN <<SubSeq(body, 1, end)>>
                  \o UrlMatches(SubSeq(body, end + 1, Len(body)))
             ELSE UrlMatches(Tail(body))

\* if (!unsubscribeLinks.includes(link)) unsubscribeLinks.push(link)
RECURSIVE BodyLoop(_, _)
BodyLoop(bodyLinks, links) ==
    IF bodyLinks = <<>> THEN links
    ELSE BodyLoop(Tail(bodyLinks),
                  IF Head(bodyLinks) \in Range(links) THEN links
                  ELSE Append(links, Head(bodyLinks)))

\* unsubscribeLinks and unsubscribeEmail of a message with that
\* List-Unsubscribe header ('' when it has none) and that body
UnsubscribeInfo(unsubscribeHeader, body) ==
    LET h == IF unsubscribeHeader # <<>>
             THEN HeaderLoop(AngleMatches(unsubscribeHeader), <<>>, Null)
             ELSE [links |-> <<>>, email |-> Null]
    IN  [kind |-> "unsubscribe",
         unsubscribeLinks |-> BodyLoop(UrlMatches(body), h.links),
         unsubscribeEmail |-> h.email]

\* Entries of a List-Unsubscribe header, and words of a body
HeaderLinks ==
    {<<"https://", "x/u1">>, <<"http://", "x/u2">>,
     <<"https://", "x/", "unsubscribe">>, <<"mailto:", "u@x", "?", "subject=u">>}

BodyWords ==
    {<<"https://", "x/", "unsubscribe">>, <<"HTTPS://", "x/", "Unsubscribe">>,
     <<"https://", "x/u1">>, <<"click">>}

\* `<${link}>` entries joined with ', '
ListUnsubscribe(entries) ==
    Join([i \in 1..Len(entries) |-> <<"<">> \o entries[i] \o <<">">>],
         <<",", " ">>)

InitPayload ==
    /\ apiKey = Undefined
    /\ listing = [q \in Queries |-> <<>>]
    /\ unavailable = {}
    /\ down = {}
    /\ HttpIdle
    /\ mkMax = 0
    /\ mkOut = NotRun
    /\ \/ \E p \in PartTrees(MaxDepth) :
              fnArg = [kind |-> "payload", payload |-> p]
       \/ \E entries \in SeqsUpTo(HeaderLinks, MaxLinks),
             words \in SeqsUpTo(BodyWords, MaxLinks) :
              fnArg = [kind |-> "message",
                       unsubscribeHeader |-> ListUnsubscribe(entries),
                       body |-> Join(words, <<" ">>)]
    /\ fnOut = NotRun
    /\ OAuthIdle

\* getEmail turns the fetched message into an EmailMessage.
ReadEmail ==
    /\ fnOut = NotRun
    /\ fnArg.kind = "payload"
    /\ fnOut' = [kind |-> "email", body |-> GetEmailBody(fnArg.payload)]
    /\ UNCHANGED <<fnArg, httpVars, backendVars, mkVars, authVars>>

\* getThread turns the fetched thread, of one message, into an EmailThread.
ReadThread ==
    /\ fnOut = NotRun
    /\ fnArg.kind = "payload"
    /\ fnOut' = [kind |-> "thread",
                 bodies |-> <<ThreadMessageBody(fnArg.payload)>>]
    /\ UNCHANGED <<fnArg, httpVars, backendVars, mkVars, authVars>>

\* getEmailWithAttachments turns the fetched message into an
\* EmailWithAttachments.
ReadEmailWithAttachments ==
    /\ fnOut = NotRun
    /\ fnArg.kind = "payload"
    /\ LET e == GetEmailWithAttachmentsParts(fnArg.payload)
       IN  fnOut' = [kind |-> "attachments", body |-> e.body,
                     attachments |-> e.attachments]
    /\ UNCHANGED <<fnArg, httpVars, backendVars, mkVars, authVars>>

\* getEmailWithUnsubscribe gathers the unsubscribe links of the fetched
\* message.
ReadUnsubscribe ==
    /\ fnOut = NotRun
    /\ fnArg.kind = "message"
    /\ fnOut' = UnsubscribeInfo(fnArg.unsubscribeHeader, fnArg.body)
    /\ UNCHANGED <<fnArg, httpVars, backendVars, mkVars, authVars>>

NextPayload ==
    \/ ReadEmail
    \/ ReadThread
    \/ ReadEmailWithAttachments
    \/ ReadUnsubscribe

SpecPayload == InitPayload /\ [][NextPayload]_vars

-----------------------------------------------------------------------------
(* Token refresh while requests are under way *)

\* The client after createOAuth2Client(config), MaxRequests requests arrived
InitAuth ==
    /\ apiKey = Undefined
    /\ listing = [q \in Queries |-> <<>>]
    /\ unavailable = {}
    /\ down = {}
    /\ HttpIdle
    /\ mkMax = 0
    /\ mkOut = NotRun
    /\ fnArg = NotRun
    /\ fnOut = NotRun
    /\ oauthConfig \in EnvConfigs
    /\ credentials = InitialCredentials(oauthConfig)
    /\ tokenEvents = <<>>
    /\ inflight = [r \in 1..MaxRequests |-> "idle"]

\* A handler awaits a backend call.
BeginCall ==
    \E r \in 1..MaxRequests :
        /\ inflight[r] = "idle"
        /\ inflight' = [inflight EXCEPT ![r] = "calling"]
        /\ UNCHANGED <<oauthConfig, credentials, tokenEvents, httpVars,
                       backendVars, mkVars, fnVars>>

\* During a call the client refreshes the token and emits 'tokens'; the
\* listener runs to completion before anything else does.
EmitTokens ==
    \E r \in 1..MaxRequests, tokens \in TokenEvents :
        /\ inflight[r] = "calling"
        /\ Len(tokenEvents) < MaxRefresh
        /\ tokenEvents' = Append(tokenEvents, tokens)
        /\ credentials' = OnTokens(credentials, tokens)
        /\ UNCHANGED <<oauthConfig, inflight, httpVars, backendVars, mkVars,
                       fnVars>>

\* The backend call of a request returns.
EndCall ==
    \E r \in 1..MaxRequests :
        /\ inflight[r] = "calling"
        /\ inflight' = [inflight EXCEPT ![r] = "done"]
        /\ UNCHANGED <<oauthConfig, credentials, tokenEvents, httpVars,
                       backendVars, mkVars, fnVars>>

NextAuth ==
    \/ BeginCall
    \/ EmitTokens
    \/ EndCall

SpecAuth == InitAuth /\ [][NextAuth]_vars

-----------------------------------------------------------------------------
(* Vocabulary of the properties *)

Handler == IF route = 0 THEN "none" ELSE Routes[route].handler

Served == pc = "done"

\* config.API_KEY holds a key
KeyConfigured == apiKey \notin {Undefined, ""}

\* The request got past authenticateApiKey and its handler has answered
Answered == Served /\ route # 0 /\ resp.status # 401

ViaCall(tool) == Answered /\ Handler = "call" /\ req.tool = tool

UnknownTool ==
    /\ resp.status = 400
    /\ resp.payload.kind = "error"
    /\ resp.payload.msg = "Unknown tool"

FailedCalls == {i \in 1..Len(calls) : ~calls[i].ok}

\* The ids of the messages.get calls that succeeded, in call order
Fetched(cs) ==
    LET oks == SelectSeq(cs, LAMBDA c : c.api = "messages.get" /\ c.ok)
    IN  [i \in 1..Len(oks) |-> oks[i].arg]

NoDuplicates(s) == \A i, j \in 1..Len(s) : s[i] = s[j] => i = j

\* The route registered under the method and path pattern of a tool entry
OwnRoute(t) ==
    CHOOSE i \in 1..Len(Routes) :
        Routes[i].method = t.method /\ Routes[i].path = t.path

-----------------------------------------------------------------------------
(* C1 *)

\* C1: with an API key configured, a request to any registered route other
\* than GET /health whose x-api-key is missing or differs from the key never
\* reaches its handler, makes no backend call, and is answered 401.
C1_UnauthorizedNeverReachesBackend ==
    (/\ KeyConfigured
     /\ pc # "idle"
     /\ route # 0
     /\ Handler # "health"
     /\ req.key # apiKey)
    => /\ pc # "handler"
       /\ calls = <<>>
       /\ invoked = "none"
       /\ Served => (resp.status = 401 /\ ~resp.success)

C1_Witness ==
    /\ KeyConfigured
    /\ Served
    /\ Handler = "call"
    /\ req.tool = "send_email"
    /\ req.key = Undefined
    /\ resp.status = 401
    /\ calls = <<>>

(* C2 *)

\* C2: a request with the method and path of an entry advertised by
\* GET /api/tools (parameters replaced by backend identifiers) is routed to
\* the handler registered under that entry's method and path.
C2_AdvertisedPathReachesOwnHandler ==
    \A i \in 1..Len(Tools) :
        (/\ pc # "idle"
         /\ req.method = Tools[i].method
         /\ req.path \in Instances(Tools[i].path))
        => route = OwnRoute(Tools[i])

(* C3 *)

\* C3: a POST /api/call naming a tool of the README's list, with its
\* required arguments, is dispatched to an adapter operation and is never
\* answered 400 'Unknown tool'.
C3_ReadmeToolsAccepted ==
    (/\ Answered
     /\ Handler = "call"
     /\ req.tool \in ReadmeTools
     /\ req.valid
     /\ (req.id = Undefined => ~CallSpec(req.tool).needsId))
    => (~UnknownTool /\ invoked # "none")

(* C4 *)

\* C4: get_email for an id the backend cannot serve is answered 404 with
\* success=false by GET /api/emails/:id, and 200 with success=true and a
\* null data payload by POST /api/call.
C4_MissingEmail404ViaRestNullViaCall ==
    /\ (/\ Answered
        /\ Handler = "getEmail"
        /\ ~ByIdOk(ParamValue(route, req.path, 1)))
       => (resp.status = 404 /\ ~resp.success /\ "error" \in resp.keys)
    /\ (/\ ViaCall("get_email")
        /\ req.id # Undefined
        /\ ~ByIdOk(req.id))
       => /\ resp.status = 200
          /\ resp.success
          /\ resp.keys = {"success", "data"}
          /\ resp.payload = Null

C4_Witness ==
    /\ ViaCall("get_email")
    /\ req.id = "m1"
    /\ "m1" \in unavailable
    /\ resp.status = 200
    /\ resp.payload = Null
    /\ Len(calls) = 1

(* C5 *)

\* The route parameters of the request are backend identifiers
ParamsAreIds ==
    /\ route # 0
    /\ \A n \in 1..2 : ParamValue(route, req.path, n) \in Ids \cup {Undefined}

\* C5 as stated: whenever a backend call made for the request failed, the
\* request is answered 500 with success=false and the error message.
C5_AnyBackendFailureIs500 ==
    (Served /\ ParamsAreIds /\ FailedCalls # {})
    => (resp.status = 500 /\ ~resp.success /\ resp.payload.kind = "error")

\* Backend calls whose failure the adapter catches: the by-id fetch inside
\* getEmail (also under listEmails, searchEmails, findMarketingEmails),
\* getEmailWithUnsubscribe, getEmailWithAttachments, getAttachment, getThread
\* and getDraft (also under listDrafts), and the listings inside
\* findMarketingEmails.
Caught(c) ==
    \/ /\ c.api = "messages.get"
       /\ invoked \notin {"replyToEmail", "forwardEmail"}
    \/ c.api \in {"threads.get", "drafts.get", "attachments.get"}
    \/ c.api = "messages.list" /\ invoked = "findMarketingEmails"

\* C5 amended: a failed backend call the adapter does not catch is answered
\* 500 with success=false and the error message; when every failed call is
\* one the adapter catches, the request is answered 404 or 200, never 500.
C5_UncaughtFailureIs500 ==
    (Served /\ FailedCalls # {})
    => IF \E i \in FailedCalls : ~Caught(calls[i])
       THEN resp.status = 500 /\ ~resp.success /\ resp.payload.kind = "error"
       ELSE resp.status \in {200, 404}

C5_Witness ==
    /\ Served
    /\ invoked = "replyToEmail"
    /\ Len(calls) = 2
    /\ calls[1].ok
    /\ ~calls[2].ok
    /\ resp.status = 500

(* C6 *)

\* C6 as stated: in listEmails, when the fetch of one of the listed ids
\* fails, the whole list operation fails.
C6_ItemFailureFailsList ==
    (/\ Served
     /\ invoked = "listEmails"
     /\ \E i \in FailedCalls : calls[i].api = "messages.get")
    => resp.status = 500

\* C6 amended: in listEmails, a failed fetch of a listed id is isolated to
\* that item: the operation succeeds and returns, in listing order, the
\* listed messages whose fetch succeeded; only a failure of the id listing
\* itself fails the operation.
C6_ItemFailureIsSkipped ==
    (Served /\ invoked = "listEmails")
    => IF calls[1].ok
       THEN /\ resp.status = 200
            /\ resp.payload.kind = "emails"
            /\ resp.payload.ids = Fetched(calls)
            /\ Len(calls) = 1 + Len(BackendList(NoQuery, calls[1].n))
       ELSE resp.status = 500 /\ Len(calls) = 1

C6_Witness ==
    /\ Served
    /\ invoked = "listEmails"
    /\ Len(calls) = 3
    /\ ~calls[2].ok
    /\ calls[3].ok
    /\ resp.status = 200
    /\ resp.payload.ids = <<calls[3].arg>>

(* C7 *)

\* C7: findMarketingEmails never returns the same message id twice.
C7_MarketingNoDuplicateIds ==
    mkOut # NotRun => NoDuplicates(mkOut.out.ids)

\* A message listed by the first two queries, fetched both times, is returned.
C7_Witness ==
    /\ mkOut # NotRun
    /\ down = {}
    /\ unavailable = {}
    /\ mkMax = MaxN + 1
    /\ listing[MarketingQueries[1]] = <<"m1", "m2">>
    /\ listing[MarketingQueries[2]] = <<"m1", "m2">>
    /\ listing[MarketingQueries[3]] = <<"m2">>
    /\ mkOut.out.ids = <<"m1", "m2">>

(* C8 *)

\* C8: findMarketingEmails returns at most maxResults messages.
C8_MarketingAtMostMaxResults ==
    mkOut # NotRun => Len(mkOut.out.ids) <= mkMax

\* The queries found more distinct messages than maxResults.
C8_Witness ==
    /\ mkOut # NotRun
    /\ mkMax = 1
    /\ Len(FindMarketingEmailsUncut(mkMax).out.ids) = 2
    /\ Len(mkOut.out.ids) = 1

(* C9 *)

\* GET /api/emails?maxResults=n, n written in decimal, with the key of the
\* request at hand
SameListViaRest ==
    RestHandler("listEmails",
                Req("GET", <<"api", "emails">>, req.key, Decimal(req.n), NaN,
                    TRUE, Undefined, Undefined),
                Undefined, Undefined).resp

C10_AdvertisedIffDispatched ==
    (Answered /\ Handler = "call" /\ req.tool # Undefined)
    => /\ (req.tool \in AdvertisedNames) <=> ~UnknownTool
       /\ \A i \in 1..Len(Tools) :
            (/\ Tools[i].name = req.tool
             /\ req.valid
             /\ (req.id = Undefined => ~CallSpec(req.tool).needsId))
            => invoked = Routes[OwnRoute(Tools[i])].handler

C10_Witness ==
    /\ ViaCall("batch_modify")
    /\ req.valid
    /\ invoked = "batchModifyEmails"
    /\ resp.status = 200

(* C11 *)

\* The body of the request fails the zod schema of its REST handler
FailsSchema ==
    /\ Handler \in SchemaHandlers
    /\ \/ ~req.valid
       \/ Handler = "searchEmails" /\ req.n # NaN /\ req.n < 1

\* The POST /api/call request lacks the tool field, names a tool the switch
\* has no case for, or lacks an argument the case of its tool requires
FailsCallChecks ==
    /\ Handler = "call"
    /\ \/ req.tool = Undefined
       \/ req.tool \notin AdvertisedNames
       \/ CallSpec(req.tool).needsId /\ req.id = Undefined
       \/ CallSpec(req.tool).needsRest /\ ~req.valid

\* C11: a request that fails the schema of its REST handler, or a POST
\* /api/call that lacks the tool field, names an unknown tool or lacks a
\* required argument of its tool, is answered 400 with success=false, and no
\* adapter operation and no backend call is made for it.
C11_InvalidRequestIs400 ==
    (Answered /\ (FailsSchema \/ FailsCallChecks))
    => /\ resp.status = 400
       /\ ~resp.success
       /\ resp.payload.kind = "error"
       /\ invoked = "none"
       /\ calls = <<>>

\* A search whose maxResults is below the schema's minimum
C11_Witness ==
    /\ Answered
    /\ Handler = "searchEmails"
    /\ req.valid
    /\ req.n = 0
    /\ resp.status = 400
    /\ "details" \in resp.keys
    /\ calls = <<>>

(* C12 *)

\* C12: when config.API_KEY holds no key, no request is answered 401,
\* whatever x-api-key header it carries or omits.
C12_NoKeyNever401 ==
    ~KeyConfigured => resp.status # 401

\* A request with a key nobody configured is served.
C12_Witness ==
    /\ apiKey = Undefined
    /\ ViaCall("get_labels")
    /\ req.key = "wrong"
    /\ resp.status = 200
    /\ Len(calls) = 1

(* C13 *)

\* The addresses a To line names, in order
AddressesOf(text) == SelectSeq(text, LAMBDA c : c \in Addresses)

Replied == fnOut # NotRun /\ fnOut.kind = "reply"

\* C13: a reply with replyAll false or absent addresses exactly one
\* recipient, the From header of the original, whatever its To and Cc hold.
C13_ReplyAddressesSenderOnly ==
    (Replied /\ ~fnArg.replyAll)
    => /\ fnOut.toRecipients = <<fnArg.from>>
       /\ ToLine(fnOut.toRecipients) = fnArg.from
       /\ fnArg.from # <<>> => Len(AddressesOf(ToLine(fnOut.toRecipients))) = 1

\* The original went to two others besides the sender.
C13_Witness ==
    /\ Replied
    /\ ~fnArg.replyAll
    /\ fnArg.from = NameAddr("Ann", "ann@x")
    /\ fnArg.to = <<"bob@x", ",", " ", "ann@x">>
    /\ fnArg.cc = <<"bob@x">>
    /\ AddressesOf(ToLine(fnOut.toRecipients)) = <<"ann@x">>

(* C14 *)

\* C14: a reply with replyAll true to an original with a sender, whose To
\* and Cc headers each list no address twice, addresses the sender and every
\* address of the To and Cc headers, and no address twice.
C14_ReplyAllNoAddressTwice ==
    (/\ Replied
     /\ fnArg.replyAll
     /\ fnArg.from # <<>>
     /\ NoDuplicates(AddressesOf(fnArg.to))
     /\ NoDuplicates(AddressesOf(fnArg.cc)))
    => LET addressed == AddressesOf(ToLine(fnOut.toRecipients))
       IN  /\ Range(AddressesOf(fnArg.from)) \subseteq Range(addressed)
           /\ Range(AddressesOf(fnArg.to)) \subseteq Range(addressed)
           /\ Range(AddressesOf(fnArg.cc)) \subseteq Range(addressed)
           /\ NoDuplicates(addressed)

(* C15 *)

\* C15: the reply subject is the original subject unchanged when that starts
\* with 're:' in any letter case, and 'Re: ' followed by the original subject
\* otherwise; replying to the reply adds no second prefix.
C15_ReplySubjectPrefixedOnce ==
    Replied
    => LET re == \E p \in {"R", "r"} \X {"E", "e"} \X {":"} :
                    StartsWith(fnArg.subject, p)
       IN  /\ re => fnOut.subject = fnArg.subject
           /\ ~re => fnOut.subject = <<"R", "e", ":", " ">> \o fnArg.subject
           /\ ReplySubject(fnOut.subject) = fnOut.subject

C15_Witness ==
    /\ Replied
    /\ fnArg.subject = <<"r", "E", ":", "M">>
    /\ fnOut.subject = <<"r", "E", ":", "M">>

(* C16 *)

Forwarded == fnOut # NotRun /\ fnOut.kind = "forward"

\* C16: the forward subject is the original subject unchanged when that
\* starts with 'fwd:' in any letter case, and 'Fwd: ' followed by the original
\* subject otherwise; forwarding the forward adds no second prefix.
C16_ForwardSubjectPrefixedOnce ==
    Forwarded
    => LET fwd == \E p \in {"F", "f"} \X {"W", "w"} \X {"D", "d"} \X {":"} :
                     StartsWith(fnArg.subject, p)
       IN  /\ fwd => fnOut.subject = fnArg.subject
           /\ ~fwd => fnOut.subject = <<"F", "w", "d", ":", " ">> \o fnArg.subject
           /\ ForwardSubject(fnOut.subject) = fnOut.subject

C16_Witness ==
    /\ Forwarded
    /\ fnArg.subject = <<"F", "W", "D", ":">>
    /\ fnOut.subject = <<"F", "W", "D", ":">>

(* C17 *)

\* Every part of the given parts and below them, each before its own parts
RECURSIVE Flatten(_)
Flatten(parts) ==
    IF parts = <<>> THEN <<>>
    ELSE <<Head(parts)>> \o Flatten(Head(parts).parts) \o Flatten(Tail(parts))

\* Every part of the part tree, the payload itself first
AllParts(payload) == Flatten(<<payload>>)

\* The body the read operation returned
BodyRead ==
    IF fnOut.kind = "thread" THEN fnOut.bodies[1] ELSE fnOut.body

\* C17: getEmail and getThread, on a multipart message with no text/plain
\* part and an HTML part carrying content at any nesting depth, return that
\* HTML content as the body.
C17_NestedHtmlIsBody ==
    (/\ fnOut.kind \in {"email", "thread"}
     /\ fnArg.payload.parts # <<>>
     /\ \A i \in 1..Len(AllParts(fnArg.payload)) :
            AllParts(fnArg.payload)[i].mimeType # "text/plain"
     /\ \E i \in 1..Len(AllParts(fnArg.payload)) :
            AllParts(fnArg.payload)[i] = HtmlPart)
    => BodyRead = Decode(HtmlData)

(* C18 *)

Count(s, x) == Cardinality({i \in 1..Len(s) : s[i] = x})

\* The descriptors of the parts that carry a filename and an attachment id
AttachmentsOf(payload) ==
    LET carrying == SelectSeq(AllParts(payload),
                              LAMBDA q : q.filename # "" /\ q.attachmentId # "")
    IN  [i \in 1..Len(carrying) |-> AttachmentInfo(carrying[i])]

\* C18: the attachment list of getEmailWithAttachments holds one descriptor
\* for every part of the part tree, at any depth, that carries both a
\* filename and an attachment id, and nothing else.
C18_AttachmentsAreTheCarryingParts ==
    fnOut.kind = "attachments"
    => \A d \in Range(fnOut.attachments) \cup Range(AttachmentsOf(fnArg.payload)) :
           Count(fnOut.attachments, d) = Count(AttachmentsOf(fnArg.payload), d)

(* C19 *)

\* The lines of a raw message: the texts between its line breaks
RECURSIVE LinesLoop(_, _, _)
LinesLoop(text, line, lines) ==
    IF text = <<>> THEN Append(lines, line)
    ELSE IF Head(text) = CRLF
    THEN LinesLoop(Tail(text), <<>>, Append(lines, line))
    ELSE LinesLoop(Tail(text), Append(line, Head(text)), lines)

LinesOf(raw) == LinesLoop(raw, <<>>, <<>>)

\* An entity is header lines, an empty line, content lines
FirstBlank(lines) ==
    LET blanks == {i \in 1..Len(lines) : lines[i] = <<>>}
    IN  IF blanks = {} THEN Len(lines) + 1
        ELSE CHOOSE i \in blanks : \A j \in blanks : i <= j

HeadersOf(lines) == SubSeq(lines, 1, FirstBlank(lines) - 1)

ContentOf(lines) == SubSeq(lines, FirstBlank(lines) + 1, Len(lines))

ContentTypes(headers) ==
    SelectSeq(headers, LAMBDA h : h # <<>> /\ Head(h) = "Content-Type: ")

Composed == fnOut.kind \in {"sent", "drafted"}

\* As a reader of the raw message sees it: the boundary its Content-Type
\* declares and the parts that boundary delimits
MultipartRead(raw) ==
    LET ct == ContentTypes(HeadersOf(LinesOf(raw)))[1]
        declared == SubSeq(ct, 4, Len(ct) - 1)
        body == ContentOf(LinesOf(raw))
        delims == {i \in 1..Len(body) : body[i] = <<"--">> \o declared}
        closes == {i \in 1..Len(body) :
                      body[i] = <<"--">> \o declared \o <<"--">>}
        d1 == CHOOSE i \in delims : \A j \in delims : i <= j
        d2 == CHOOSE i \in delims : \A j \in delims : j <= i
    IN  [type |-> SubSeq(ct, 1, 3),
         delims |-> delims,
         closes |-> closes,
         length |-> Len(body),
         \* the line break before a delimiter belongs to the delimiter
         first |-> SubSeq(body, d1 + 1, d2 - 2),
         second |-> SubSeq(body, d2 + 1, Len(body) - 2),
         breaks |-> <<body[d2 - 1], body[Len(body) - 1]>>]

EntityIs(lines, contentType, content) ==
    /\ HeadersOf(lines) = <<<<"Content-Type: ", contentType>>>>
    /\ Join(ContentOf(lines), <<CRLF>>) = content

\* C19: sendEmail and createDraft with a plain and an HTML body compose a
\* multipart/alternative message of exactly two parts, the text/plain part
\* with the plain body first and the text/html part with the HTML body
\* second, delimited by the boundary the Content-Type header declares and
\* closed by that boundary.
C19_PlainThenHtmlInDeclaredBoundary ==
    (Composed /\ fnArg.params.htmlBody # <<>>)
    => /\ Len(ContentTypes(HeadersOf(LinesOf(fnOut.raw)))) = 1
       /\ LET m == MultipartRead(fnOut.raw)
          IN  /\ m.type = <<"Content-Type: ", "multipart/alternative",
                            "; boundary=\"">>
              /\ Cardinality(m.delims) = 2
              /\ 1 \in m.delims
              /\ m.closes = {m.length}
              /\ m.breaks = <<<<>>, <<>>>>
              /\ EntityIs(m.first, "text/plain; charset=UTF-8",
                          fnArg.params.body)
              /\ EntityIs(m.second, "text/html; charset=UTF-8",
                          fnArg.params.htmlBody)

\* A draft whose plain body has a line that starts with two dashes
C19_Witness ==
    /\ fnOut.kind = "drafted"
    /\ fnArg.params.body = <<"hello", CRLF, "--", "Ann">>
    /\ fnArg.params.htmlBody = <<"<p>hello</p>", CRLF, "<p>hello</p>">>
    /\ Len(LinesOf(fnOut.raw)) = 18
    /\ MultipartRead(fnOut.raw).delims = {1, 7}

(* C20 *)

\* C20: sendEmail and createDraft with a plain body and no HTML body compose
\* a single-part message whose Content-Type is text/plain; charset=UTF-8 and
\* whose content is exactly the body, with no boundary line.
C20_PlainOnlyIsSinglePart ==
    (Composed /\ fnArg.params.htmlBody = <<>>)
    => /\ ContentTypes(HeadersOf(LinesOf(fnOut.raw)))
            = <<<<"Content-Type: ", "text/plain; charset=UTF-8">>>>
       /\ Join(ContentOf(LinesOf(fnOut.raw)), <<CRLF>>) = fnArg.params.body
       /\ \A i \in 1..Len(LinesOf(fnOut.raw)) :
            ~StartsWith(LinesOf(fnOut.raw)[i], <<"--", "----=_Part_">>)

C20_Witness ==
    /\ fnOut.kind = "sent"
    /\ fnArg.params.htmlBody = <<>>
    /\ fnArg.params.body = <<CRLF, "hello">>
    /\ fnArg.params.subject = <<"é">>
    /\ ContentOf(LinesOf(fnOut.raw)) = <<<<>>, <<"hello">>>>

-----------------------------------------------------------------------------
(* Reading an encoded-word back (RFC 2047, charset UTF-8, encoding B) *)

Base64Index(c) == (CHOOSE i \in 1..64 : Base64Alphabet[i] = c) - 1

RECURSIVE Base64Decode(_)
Base64Decode(chars) ==
    IF Len(chars) < 4 THEN <<>>
    ELSE LET a == Base64Index(chars[1])
             b == Base64Index(chars[2])
         IN  IF chars[3] = "=" THEN <<a * 4 + (b \div 16)>>
             ELSE LET c == Base64Index(chars[3])
                  IN  IF chars[4] = "="
                      THEN <<a * 4 + (b \div 16), (b % 16) * 16 + (c \div 4)>>
                      ELSE <<a * 4 + (b \div 16), (b % 16) * 16 + (c \div 4),
                             (c % 4) * 64 + Base64Index(chars[4])>>
                           \o Base64Decode(SubSeq(chars, 5, Len(chars)))

\* The code units of a code point a UTF-8 decoder has read; a decoder takes
\* no surrogate from a three-byte sequence
UnitsOfCodePoint(cp) ==
    IF cp >= 65536
    THEN <<55296 + ((cp - 65536) \div 1024), 56320 + ((cp - 65536) % 1024)>>
    ELSE IF cp >= 55296 /\ cp <= 57343 THEN <<65533>>
    ELSE <<cp>>

RECURSIVE Utf8Decode(_)
Utf8Decode(bytes) ==
    IF bytes = <<>> THEN <<>>
    ELSE IF bytes[1] < 128
    THEN <<bytes[1]>> \o Utf8Decode(Tail(bytes))
    ELSE IF bytes[1] < 224 /\ Len(bytes) >= 2
    THEN UnitsOfCodePoint((bytes[1] - 192) * 64 + (bytes[2] - 128))
         \o Utf8Decode(SubSeq(bytes, 3, Len(bytes)))
    ELSE IF bytes[1] < 240 /\ Len(bytes) >= 3
    THEN UnitsOfCodePoint((bytes[1] - 224) * 4096 + (bytes[2] - 128) * 64
                          + (bytes[3] - 128))
         \o Utf8Decode(SubSeq(bytes, 4, Len(bytes)))
    ELSE IF Len(bytes) >= 4
    THEN UnitsOfCodePoint((bytes[1] - 240) * 262144 + (bytes[2] - 128) * 4096
                          + (bytes[3] - 128) * 64 + (bytes[4] - 128))
         \o Utf8Decode(SubSeq(bytes, 5, Len(bytes)))
    ELSE <<65533>>

IsEncodedWord(header) ==
    /\ Len(header) >= 3
    /\ header[1] = "=?UTF-8?B?"
    /\ header[Len(header)] = "?="
    /\ (Len(header) - 2) % 4 = 0

DecodeWord(header) ==
    Utf8Decode(Base64Decode(SubSeq(header, 2, Len(header) - 1)))

HasNonAscii(text) == \E i \in 1..Len(text) : CodeUnit(text[i]) > 127

\* Every surrogate code unit is half of a pair
WellFormed(units) ==
    \A i \in 1..Len(units) :
        /\ IsHighSurrogate(units[i]) =>
               i < Len(units) /\ IsLowSurrogate(units[i + 1])
        /\ IsLowSurrogate(units[i]) =>
               i > 1 /\ IsHighSurrogate(units[i - 1])

Encoded == fnOut # NotRun /\ fnOut.kind = "encoded"

\* C21 as stated: header encoding is the identity on every ASCII subject, and
\* for every subject with a non-ASCII character it is a UTF-8 base64
\* encoded-word that decodes back to the subject.
C21_EncodedWordRoundTrips ==
    Encoded =>
        IF HasNonAscii(fnArg.text)
        THEN /\ IsEncodedWord(fnOut.text)
             /\ DecodeWord(fnOut.text) = CodeUnits(fnArg.text)
        ELSE fnOut.text = fnArg.text

\* C21 amended: header encoding is the identity on every ASCII subject, and
\* for every subject with a non-ASCII character and no unpaired surrogate it
\* is a UTF-8 base64 encoded-word that decodes back to the subject.
C21_WellFormedRoundTrips ==
    Encoded =>
        IF HasNonAscii(fnArg.text)
        THEN /\ IsEncodedWord(fnOut.text)
             /\ WellFormed(CodeUnits(fnArg.text)) =>
                    DecodeWord(fnOut.text) = CodeUnits(fnArg.text)
        ELSE fnOut.text = fnArg.text

\* A subject with a one-byte, a three-byte and a four-byte character has been
\* encoded.
C21_Witness ==
    /\ Encoded
    /\ fnArg.text = <<"M", "€", "<D83D>", "<DE00>">>
    /\ fnOut.text # fnArg.text
    /\ DecodeWord(fnOut.text) = <<77, 8364, 55357, 56832>>

-----------------------------------------------------------------------------
(* C22 *)

\* s is t with some elements left out
RECURSIVE IsSubsequence(_, _)
IsSubsequence(s, t) ==
    IF s = <<>> THEN TRUE
    ELSE IF t = <<>> THEN FALSE
    ELSE IF Head(s) = Head(t) THEN IsSubsequence(Tail(s), Tail(t))
    ELSE IsSubsequence(s, Tail(t))

\* C22: the list operation returns the fetched messages in the order of the
\* id list the backend returned: the result is a subsequence of that list.
C22_ListKeepsBackendOrder ==
    (Served /\ invoked = "listEmails" /\ resp.status = 200)
    => /\ resp.payload.kind = "emails"
       /\ IsSubsequence(resp.payload.ids,
                        BackendList(calls[1].arg, calls[1].n))

\* Two messages were listed and both came back, in the listed order.
C22_Witness ==
    /\ Served
    /\ invoked = "listEmails"
    /\ resp.status = 200
    /\ Len(BackendList(calls[1].arg, calls[1].n)) = 2
    /\ resp.payload.ids = BackendList(calls[1].arg, calls[1].n)
    /\ resp.payload.ids[1] # resp.payload.ids[2]

-----------------------------------------------------------------------------
(* C23 *)

Sends == {i \in 1..Len(calls) : calls[i].api = "messages.send"}

\* C23: in reply and in forward the send call is issued only after the fetch
\* of the source message has succeeded; when the fetch fails nothing is sent
\* and the request ends with HTTP 500.
C23_SendOnlyAfterFetch ==
    (Served /\ invoked \in {"replyToEmail", "forwardEmail"})
    => /\ calls # <<>>
       /\ calls[1].api = "messages.get"
       /\ \A i \in Sends : i > 1 /\ calls[1].ok
       /\ ~calls[1].ok => Sends = {} /\ resp.status = 500

\* A forward whose source message could not be fetched has been answered.
C23_Witness ==
    /\ Served
    /\ invoked = "forwardEmail"
    /\ Len(calls) = 1
    /\ ~calls[1].ok
    /\ resp.status = 500
    /\ "rpc" \notin down

-----------------------------------------------------------------------------
(* C24 *)

\* The refresh events so far that carried an access token
WithAccessToken ==
    {i \in 1..Len(tokenEvents) : tokenEvents[i].access_token # Undefined}

Latest(S) == CHOOSE i \in S : \A j \in S : j <= i

\* C24: after any interleaving of token-refresh events raised during
\* concurrent requests, the shared credentials hold the configured refresh
\* token and the access token of the most recent refresh event that had one
\* (the configured one when none had); an event without an access token
\* changes nothing.
C24_CredentialsFollowLatestRefresh ==
    inflight # <<>> =>
        /\ credentials.refresh_token = oauthConfig.GOOGLE_REFRESH_TOKEN
        /\ credentials.token_type = "Bearer"
        /\ credentials.access_token =
               IF WithAccessToken = {} THEN oauthConfig.GOOGLE_ACCESS_TOKEN
               ELSE tokenEvents[Latest(WithAccessToken)].access_token

\* Two requests are calling the backend; three refresh events were raised,
\* the last one without an access token, one with a refresh token of its own.
C24_Witness ==
    /\ inflight = <<"calling", "calling">>
    /\ Len(tokenEvents) = 3
    /\ tokenEvents[1].access_token = "at1"
    /\ tokenEvents[2] = [access_token |-> "at2", refresh_token |-> "rt1"]
    /\ tokenEvents[3].access_token = Undefined
    /\ credentials.access_token = "at2"
    /\ credentials.refresh_token = "rt9"

-----------------------------------------------------------------------------
(* C25 *)

\* What a marketing query contributes: nothing when its listing fails, else
\* the listed messages that could be fetched, of the first ceil(maxResults/2)
FoundBy(q) ==
    IF q \in down THEN <<>>
    ELSE LET asked == (mkMax + 1) \div 2
             listed == SubSeq(listing[q], 1, Min(asked, Len(listing[q])))
         IN  SelectSeq(listed, LAMBDA id : id \notin unavailable)

\* The elements of s, each at the place it is first seen
RECURSIVE FirstSeen(_)
FirstSeen(s) ==
    IF s = <<>> THEN <<>>
    ELSE LET front == SubSeq(s, 1, Len(s) - 1)
         IN  IF \E i \in 1..Len(front) : front[i] = s[Len(s)]
             THEN FirstSeen(front)
             ELSE Append(FirstSeen(front), s[Len(s)])

MarketingUnion ==
    FirstSeen(FoundBy(MarketingQueries[1]) \o FoundBy(MarketingQueries[2])
              \o FoundBy(MarketingQueries[3]))

\* C25: when the listing of a marketing query fails the finder does not fail;
\* that query contributes nothing and the result is the union of the other
\* queries' messages, without duplicates, in first-seen order, cut to
\* maxResults.
C25_FailedQueryContributesNothing ==
    mkOut # NotRun =>
        /\ mkOut.out.kind = "emails"
        /\ mkOut.out.ids =
               SubSeq(MarketingUnion, 1, Min(mkMax, Len(MarketingUnion)))

\* The listing of the second query failed; the result holds a message only
\* the third query found.
C25_Witness ==
    /\ mkOut # NotRun
    /\ down = {MarketingQueries[2]}
    /\ unavailable = {}
    /\ listing[MarketingQueries[1]] = <<"m1">>
    /\ listing[MarketingQueries[2]] = <<"m2", "m1">>
    /\ listing[MarketingQueries[3]] = <<"m1", "m2">>
    /\ mkOut.out.ids = <<"m1", "m2">>

-----------------------------------------------------------------------------
(* C26 *)

\* C26: through POST /api/call, for send_email, forward_email, create_draft
\* and update_draft, a single 'to' value that is no list is wrapped into a
\* one-element list before the adapter operation is invoked, so the call does
\* not fail because 'to' was not a list.
C26_SingleToIsWrapped ==
    \A tool \in ToTools :
        (ViaCall(tool) /\ req.to.type = "string" /\ invoked # "none")
        => /\ fnArg = [kind |-> "params", to |-> ArrayTo(<<req.to.value>>)]
           /\ resp.status = 500 => FailedCalls # {}

-----------------------------------------------------------------------------
(* C27 *)

MessageIdSpellings ==
    {<<"M", "essage-", "I", "D">>, <<"M", "essage-", "I", "d">>,
     <<"m", "essage-", "i", "d">>}

\* The value of the original's first header whose name is one of the
\* spellings, the empty text when it has none
OriginalHeader(spellings) ==
    LET hs == SelectSeq(fnArg.headers, LAMBDA h : h.name \in spellings)
    IN  IF hs = <<>> THEN <<>> ELSE hs[1].value

\* The value of the line of that name among the lines of a message
LineValue(lines, name) ==
    LET ls == SelectSeq(lines, LAMBDA l : l # <<>> /\ l[1] = name)
    IN  SubSeq(ls[1], 2, Len(ls[1]))

\* C27: a reply is sent with the thread id of the original message, its
\* In-Reply-To is the original Message-ID, and its References is the original
\* References followed by the original Message-ID, or the Message-ID alone
\* when the original has no References.
C27_ReplyThreadsOnOriginal ==
    Replied =>
        LET mid == OriginalHeader(MessageIdSpellings)
            refs == OriginalHeader({<<"R", "eferences">>})
        IN  /\ fnOut.threadId = fnArg.threadId
            /\ LineValue(fnOut.threadLines, "In-Reply-To: ") = mid
            /\ LineValue(fnOut.threadLines, "References: ") =
                   IF refs = <<>> THEN mid ELSE refs \o <<" ">> \o mid

\* The original sits in thread t1, spells its Message-Id that way and has a
\* References header before it.
C27_Witness ==
    /\ Replied
    /\ fnArg.threadId = "t1"
    /\ fnArg.headers = <<Header(<<"R", "eferences">>, <<"<m0@x>">>),
                         Header(<<"M", "essage-", "I", "d">>, <<"<m2@x>">>)>>
    /\ fnOut.threadId = "t1"
    /\ fnOut.threadLines = << <<"In-Reply-To: ", "<m2@x>">>,
                              <<"References: ", "<m0@x>", " ", "<m2@x>">> >>

-----------------------------------------------------------------------------
(* C28 *)

\* The request was answered by GET /health
HealthAnswered == Served /\ route # 0 /\ ~Routes[route].auth

\* C28: every response of a route other than GET /health carries a boolean
\* success field, true exactly when the status is 200; every 400, 401, 404
\* and 500 response has success=false and an error string.
C28_SuccessIffStatus200 ==
    (Served /\ ~HealthAnswered)
    => /\ "success" \in resp.keys
       /\ resp.success \in BOOLEAN
       /\ resp.success <=> resp.status = 200
       /\ resp.status \in {200, 400, 401, 404, 500}
       /\ resp.status # 200 =>
            /\ "error" \in resp.keys
            /\ resp.payload.kind = "error"

\* A thread the backend could not serve was answered 404 with success=false.
C28_Witness ==
    /\ Served
    /\ invoked = "getThread"
    /\ Handler # "call"
    /\ FailedCalls # {}
    /\ resp.status = 404
    /\ ~resp.success
    /\ resp.keys = {"success", "error"}

-----------------------------------------------------------------------------
(* C29 *)

\* The label operation a request asks for, "none" when it asks for another
Asked ==
    IF route = 0 THEN "none"
    ELSE IF Handler = "call"
    THEN CASE req.tool = "mark_read" -> "mark-read"
           [] req.tool = "mark_unread" -> "mark-unread"
           [] req.tool = "star_email" -> "star"
           [] req.tool = "unstar_email" -> "unstar"
           [] req.tool = "archive_email" -> "archive"
           [] OTHER -> "none"
    ELSE IF Len(req.path) = 4 /\ req.path[1] = "api" /\ req.path[2] = "emails"
    THEN CASE req.method = "POST" /\ req.path[4] = "read" -> "mark-read"
           [] req.method = "POST" /\ req.path[4] = "unread" -> "mark-unread"
           [] req.method = "POST" /\ req.path[4] = "star" -> "star"
           [] req.method = "DELETE" /\ req.path[4] = "star" -> "unstar"
           [] req.method = "POST" /\ req.path[4] = "archive" -> "archive"
           [] OTHER -> "none"
    ELSE "none"

\* The message the request names
GivenMessage == IF Handler = "call" THEN req.id ELSE req.path[3]

Added(what) ==
    CASE what = "mark-unread" -> {"UNREAD"}
      [] what = "star" -> {"STARRED"}
      [] OTHER -> {}

Removed(what) ==
    CASE what = "mark-read" -> {"UNREAD"}
      [] what = "unstar" -> {"STARRED"}
      [] what = "archive" -> {"INBOX"}
      [] OTHER -> {}

\* C29: mark-read, mark-unread, star, unstar and archive each issue exactly
\* one backend modify call, on the given message: mark-read removes exactly
\* UNREAD, mark-unread adds exactly UNREAD, star adds exactly STARRED, unstar
\* removes exactly STARRED, archive removes exactly INBOX; no other label is
\* added or removed and no other message is touched.
C29_LabelOpsModifyOneLabel ==
    (Answered /\ Asked # "none" /\ invoked # "none")
    => /\ Len(calls) = 1
       /\ calls[1].api = "messages.modify"
       /\ calls[1].arg = GivenMessage
       /\ Range(calls[1].addLabelIds) = Added(Asked)
       /\ Range(calls[1].removeLabelIds) = Removed(Asked)

\* DELETE /api/emails/m2/star has taken STARRED off message m2.
C29_Witness ==
    /\ Answered
    /\ Asked = "unstar"
    /\ Handler # "call"
    /\ req.path[3] = "m2"
    /\ resp.status = 200
    /\ calls = <<[api |-> "messages.modify", arg |-> "m2", ok |-> TRUE,
                  addLabelIds |-> <<>>, removeLabelIds |-> <<"STARRED">>]>>

-----------------------------------------------------------------------------
(* C30 *)

UnsubscribeRead == fnOut # NotRun /\ fnOut.kind = "unsubscribe"

\* C30: the unsubscribeLinks list of the unsubscribe-info operation holds no
\* link twice, whatever http(s) entries the List-Unsubscribe header holds and
\* whatever URLs the body scan finds.
C30_UnsubscribeLinksUnique ==
    UnsubscribeRead => NoDuplicates(fnOut.unsubscribeLinks)

=============================================================================
